---- MODULE Spec2Model ----
(***************************************************************************)
(* A model of the inclusion-tracking and bundle-composition engine of the  *)
(* MEV-Share client: the bundle body and its hash-flattening iterator      *)
(* (api/types/rpc/helpers.rs), the inclusion waiter (helpers/provider.rs)  *)
(* and the pending handles built on it.                                    *)
(***************************************************************************)
EXTENDS Integers, Sequences, FiniteSets, TLC

VARIABLES
    body,        \* SendBundleParams.body the iterator walks
    stack,       \* BodyHashIterator.stack: the remaining siblings per level
    yielded,     \* the hashes next() has returned in the current traversal
    finished,    \* next() has returned None in the current traversal
    collected,   \* the results of the earlier, completed traversals
    traversals,  \* number of hashes() calls made so far
    height,      \* the chain: number of the newest block
    receipts,    \* the chain: the receipt, if any, of each transaction hash
    ptx,         \* the PendingTransaction handle
    txw,         \* the progress of PendingTransaction::inclusion
    pb,          \* the PendingBundle handle
    bw,          \* the progress of PendingBundle::inclusion
    request_id,  \* MevShareRpcClient.request_id, the AtomicI32 counter
    calls,       \* the post() calls on the client, each at its own position
    issued,      \* the request ids in the order the counter handed them out
    es,          \* the EventSource behind subscribe_bundles
    items,       \* the items the consumer of subscribe_bundles has received
    event,       \* the MevShareEvent as_transaction is called on
    classified,  \* what as_transaction returned
    chain_id,    \* the chain id handed to new_with_chain_id
    client,      \* what new_with_chain_id returned
    mempool,     \* the hashes the provider knows as pending transactions
    op,          \* the progress of a send_bundle or simulate_bundle call
    get_call,    \* the progress of a GET of the REST client
    target_txs,  \* the backrun example: the hashes of the transactions it sent
    backrun_call \* the backrun example: the progress of backrun()

hashVars == <<body, stack, yielded, finished, collected, traversals>>
chainVars == <<height, receipts>>
txVars == <<ptx, txw>>
bundleVars == <<pb, bw>>
rpcVars == <<request_id, calls, issued>>
sseVars == <<es, items>>
eventVars == <<event, classified>>
netVars == <<chain_id, client>>
restVars == <<get_call>>
exampleVars == <<target_txs, backrun_call>>
opVars == <<mempool, op>>
clientVars == <<rpcVars, sseVars, eventVars, netVars, restVars, exampleVars, opVars>>
vars == <<hashVars, chainVars, txVars, bundleVars, clientVars>>

----------------------------------------------------------------------------
(* Bounds of the model *)

\* bodies of up to MaxNodes elements (leaves and nested bundles, all levels)
MaxNodes == 4
\* hashes() calls on the same body
MaxTraversals == 2
\* blocks the chain produces
MaxHeight == 4

----------------------------------------------------------------------------
(* Option<T>: None is the empty sequence, Some(x) the one-element sequence *)

None == <<>>
Some(x) == <<x>>
IsSome(o) == o # <<>>
Unwrap(o) == o[1]

----------------------------------------------------------------------------
(* Bundle bodies (api/types/rpc/send_bundle.rs, enum Body) *)

\* the hash space, a small stand-in for the 256-bit TxHash
HashSpace == 2 ^ 5

\* keccak256 of the raw bytes of a signed transaction: a fixed mixing
\* function into the hash space, injective on the raw transactions used here
Keccak256(tx) == (tx * 11 + 5) % HashSpace

Tx(hash) == [kind |-> "Tx", hash |-> hash]
Signed(tx) == [kind |-> "Signed", tx |-> tx, can_revert |-> FALSE]
Bundle(b) == [kind |-> "Bundle", body |-> b]

\* the leaves bodies are built from: two signed transactions, the hash of
\* one of them given by reference (a duplicate hash), and another reference
Leaves == {Signed(0), Signed(1), Tx(Keccak256(0)), Tx(9)}

RECURSIVE BodiesOf(_)
\* the bodies with exactly n elements over all levels
BodiesOf(n) ==
    IF n = 0 THEN {<<>>}
    ELSE UNION {
        {<<e>> \o rest :
            e \in (IF k = 1 THEN Leaves ELSE {}) \cup {Bundle(b) : b \in BodiesOf(k - 1)},
            rest \in BodiesOf(n - k)} : k \in 1..n}

\* the body of tests::test_hashes
TestBody ==
    <<Signed(0), Signed(1), Tx(Keccak256(2)),
      Bundle(<<Signed(3), Signed(4), Tx(Keccak256(5))>>),
      Signed(6)>>

BodyInputs == (UNION {BodiesOf(n) : n \in 0..MaxNodes}) \cup {TestBody}

----------------------------------------------------------------------------
(* BodyHashIterator (api/types/rpc/helpers.rs) *)

\* BodyHashIterator::new
BodyHashIteratorNew(bodies) == <<bodies>>

RECURSIVE NextSiblingsFirst(_)
\* a next() that walks the later siblings of a nested bundle before its leaves
NextSiblingsFirst(st) ==
    IF st = <<>> THEN [stack |-> st, item |-> None]
    ELSE LET bodies == st[Len(st)] IN
        IF bodies = <<>>
        THEN NextSiblingsFirst(SubSeq(st, 1, Len(st) - 1))
        ELSE LET b == Head(bodies)
                 st1 == [st EXCEPT ![Len(st)] = Tail(bodies)]
             IN CASE b.kind = "Tx" -> [stack |-> st1, item |-> Some(b.hash)]
                  [] b.kind = "Signed" -> [stack |-> st1, item |-> Some(Keccak256(b.tx))]
                  [] b.kind = "Bundle" -> NextSiblingsFirst(<<b.body>> \o st1)

RECURSIVE NextStopsAtPop(_)
\* a next() that returns None as soon as one level is exhausted
NextStopsAtPop(st) ==
    IF st = <<>> THEN [stack |-> st, item |-> None]
    ELSE LET bodies == st[Len(st)] IN
        IF bodies = <<>>
        THEN [stack |-> SubSeq(st, 1, Len(st) - 1), item |-> None]
        ELSE LET b == Head(bodies)
                 st1 == [st EXCEPT ![Len(st)] = Tail(bodies)]
             IN CASE b.kind = "Tx" -> [stack |-> st1, item |-> Some(b.hash)]
                  [] b.kind = "Signed" -> [stack |-> st1, item |-> Some(Keccak256(b.tx))]
                  [] b.kind = "Bundle" -> NextStopsAtPop(Append(st1, b.body))

RECURSIVE NextKeepsLastLevel(_)
\* a next() that returns None without popping the exhausted outermost level
NextKeepsLastLevel(st) ==
    IF st = <<>> THEN [stack |-> st, item |-> None]
    ELSE LET bodies == st[Len(st)] IN
        IF bodies = <<>>
        THEN IF Len(st) = 1 THEN [stack |-> st, item |-> None]
             ELSE NextKeepsLastLevel(SubSeq(st, 1, Len(st) - 1))
        ELSE LET b == Head(bodies)
                 st1 == [st EXCEPT ![Len(st)] = Tail(bodies)]
             IN CASE b.kind = "Tx" -> [stack |-> st1, item |-> Some(b.hash)]
                  [] b.kind = "Signed" -> [stack |-> st1, item |-> Some(Keccak256(b.tx))]
                  [] b.kind = "Bundle" -> NextKeepsLastLevel(Append(st1, b.body))

RECURSIVE BodyHashIteratorNext(_)
\* BodyHashIterator::next: the while-let loop over the top of the stack;
\* the result is the stack left behind and the item returned
BodyHashIteratorNext(st) ==
    IF st = <<>> THEN [stack |-> st, item |-> None]
    ELSE LET bodies == st[Len(st)] IN
        IF bodies = <<>>
        THEN BodyHashIteratorNext(SubSeq(st, 1, Len(st) - 1))
        ELSE LET b == Head(bodies)
                 st1 == [st EXCEPT ![Len(st)] = Tail(bodies)]
             IN CASE b.kind = "Tx" -> [stack |-> st1, item |-> Some(b.hash)]
                  [] b.kind = "Signed" -> [stack |-> st1, item |-> Some(Keccak256(b.tx))]
                  [] b.kind = "Bundle" -> BodyHashIteratorNext(Append(st1, b.body))

RECURSIVE NextLoop(_)
\* BodyHashIterator::next: the stacks at the head of the while-let loop, one
\* per iteration, up to the return
NextLoop(st) ==
    IF st = <<>> THEN <<st>>
    ELSE LET bodies == st[Len(st)] IN
        IF bodies = <<>>
        THEN <<st>> \o NextLoop(SubSeq(st, 1, Len(st) - 1))
        ELSE LET b == Head(bodies)
                 st1 == [st EXCEPT ![Len(st)] = Tail(bodies)]
             IN IF b.kind = "Bundle"
                THEN <<st>> \o NextLoop(Append(st1, b.body))
                ELSE <<st, st1>>

RECURSIVE NestingDepth(_)
\* the nesting depth of a body: 0 without nested bundles
NestingDepth(b) ==
    IF b = <<>> THEN 0
    ELSE LET e == Head(b)
             d == IF e.kind = "Bundle" THEN 1 + NestingDepth(e.body) ELSE 0
             rest == NestingDepth(Tail(b))
         IN IF d > rest THEN d ELSE rest

RECURSIVE Elements(_)
\* the elements of a body over all levels, nested bundles included
Elements(b) ==
    IF b = <<>> THEN 0
    ELSE 1 + (IF Head(b).kind = "Bundle" THEN Elements(Head(b).body) ELSE 0)
           + Elements(Tail(b))

RECURSIVE CollectFrom(_, _)
\* Iterator::collect: next() until it returns None
CollectFrom(st, acc) ==
    LET r == BodyHashIteratorNext(st)
    IN IF IsSome(r.item) THEN CollectFrom(r.stack, Append(acc, Unwrap(r.item))) ELSE acc

\* body.hashes().collect()
HashesCollect(bodies) == CollectFrom(BodyHashIteratorNew(bodies), <<>>)

----------------------------------------------------------------------------
(* The traversal of a body, one next() call at a time *)

\* no iterator, no chain, no handle: the parts a specification leaves out
HashesIdle ==
    /\ body = <<>>
    /\ stack = <<>>
    /\ yielded = <<>>
    /\ finished = FALSE
    /\ collected = <<>>
    /\ traversals = 0

ChainIdle == height = 0 /\ receipts = <<>>

TxIdle == ptx = None /\ txw = None

BundleIdle == pb = None /\ bw = None

RpcIdle == request_id = 0 /\ calls = <<>> /\ issued = <<>>

SseIdle == es = None /\ items = <<>>

EventIdle == event = None /\ classified = None

NetIdle == chain_id = None /\ client = None

OpIdle == mempool = {} /\ op = None

RestIdle == get_call = None

ExampleIdle == target_txs = {} /\ backrun_call = None

ClientIdle == RpcIdle /\ SseIdle /\ EventIdle /\ NetIdle /\ OpIdle /\ RestIdle
    /\ ExampleIdle

InitHashes ==
    /\ body \in BodyInputs
    /\ stack = <<>>
    /\ yielded = <<>>
    /\ finished = FALSE
    /\ collected = <<>>
    /\ traversals = 0
    /\ ChainIdle
    /\ TxIdle
    /\ BundleIdle
    /\ ClientIdle

\* HashesIter::hashes: a new iterator over the same body
Hashes ==
    /\ traversals < MaxTraversals
    /\ traversals = 0 \/ finished
    /\ stack' = BodyHashIteratorNew(body)
    /\ yielded' = <<>>
    /\ finished' = FALSE
    /\ collected' = IF traversals = 0 THEN collected ELSE Append(collected, yielded)
    /\ traversals' = traversals + 1
    /\ UNCHANGED <<body, chainVars, txVars, bundleVars, clientVars>>

\* one call of next() on the current iterator
Next_ ==
    /\ traversals > 0
    /\ LET r == BodyHashIteratorNext(stack)
       IN /\ stack' = r.stack
          /\ IF IsSome(r.item)
             THEN yielded' = Append(yielded, Unwrap(r.item)) /\ finished' = finished
             ELSE yielded' = yielded /\ finished' = TRUE
    /\ UNCHANGED <<body, collected, traversals, chainVars, txVars, bundleVars, clientVars>>

NextHashes == Hashes \/ Next_

SpecHashes == InitHashes /\ [][NextHashes]_vars

----------------------------------------------------------------------------
(* The flattening the traversal is compared with *)

RECURSIVE PreOrder(_)
\* the leaves' hashes of a body in depth-first, left-to-right pre-order
PreOrder(b) ==
    IF b = <<>> THEN <<>>
    ELSE LET e == Head(b)
         IN (CASE e.kind = "Tx" -> <<e.hash>>
               [] e.kind = "Signed" -> <<Keccak256(e.tx)>>
               [] e.kind = "Bundle" -> PreOrder(e.body)) \o PreOrder(Tail(b))

RECURSIVE LeafOccurrences(_, _)
\* the number of signed/hash-reference leaves of a body, over all levels,
\* whose hash is in the set hs
LeafOccurrences(b, hs) ==
    IF b = <<>> THEN 0
    ELSE LET e == Head(b)
         IN (CASE e.kind = "Tx" -> (IF e.hash \in hs THEN 1 ELSE 0)
               [] e.kind = "Signed" -> (IF Keccak256(e.tx) \in hs THEN 1 ELSE 0)
               [] e.kind = "Bundle" -> LeafOccurrences(e.body, hs))
            + LeafOccurrences(Tail(b), hs)

AllHashes == 0..(HashSpace - 1)
Occurrences(seq, hs) == Cardinality({i \in 1..Len(seq) : seq[i] \in hs})
IsPrefix(s, t) == Len(s) <= Len(t) /\ s = SubSeq(t, 1, Len(s))

----------------------------------------------------------------------------
(* The chain behind the provider (Provider<Ws>): blocks are produced one    *)
(* at a time, a transaction lands in at most one block and its receipt is  *)
(* served from then on                                                     *)

\* TransactionReceipt: the fields the waiter reads
Receipt(hash, block_number, status) ==
    [transaction_hash |-> hash, block_number |-> block_number, status |-> status]

\* receipt status codes: 1 is success, 0 is failure
Statuses == {0, 1}

\* provider.get_transaction_receipt(hash) when the query is served
GetTransactionReceipt(hash) == receipts[hash]

\* the transactions of a bundle body, which the chain may come to include
ChainHashes(b) == {h \in AllHashes : LeafOccurrences(b, {h}) > 0}

\* a new block: each transaction that has not landed may land in it
MineBlock ==
    /\ height < MaxHeight
    /\ height' = height + 1
    /\ \E landing \in [{h \in DOMAIN receipts : receipts[h] = None} -> {-1} \cup Statuses] :
          receipts' = [h \in DOMAIN receipts |->
                          IF receipts[h] # None \/ landing[h] = -1
                          THEN receipts[h]
                          ELSE Some(Receipt(h, height + 1, landing[h]))]

----------------------------------------------------------------------------
(* Results of the waits (error.rs, enum Error) *)

Ok(item, block) == [kind |-> "Ok", item |-> item, block |-> block]
TransactionTimeout(hash, block) == [kind |-> "TransactionTimeout", hash |-> hash, block |-> block]
TransactionRevert(receipt) == [kind |-> "TransactionRevert", receipt |-> receipt]
BundleTimeout(hashes, block) == [kind |-> "BundleTimeout", hashes |-> hashes, block |-> block]
BundleRevert(rs) == [kind |-> "BundleRevert", receipts |-> rs]
BundleDiscard(rs) == [kind |-> "BundleDiscard", receipts |-> rs]
\* Error::Provider: a failed provider call, propagated by `?`
ProviderError == [kind |-> "Provider"]
\* the panic of unreachable!() after a block-subscription loop
Unreachable == [kind |-> "Panic"]

----------------------------------------------------------------------------
(* wait_for_tx! (helpers/provider.rs) and PendingTransaction::inclusion    *)
(* (api/types/rpc/helpers.rs)                                              *)

\* Number of blocks to wait before the transaction is considered dropped
TX_WAIT_MAX_BLOCKS == 25

\* the hash of the submitted private transaction
PendingTxHash == Keccak256(0)

\* PendingTransaction::new: max_block is the max_block_number of the request
PendingTransaction(hash, max_block) == [hash |-> hash, max_block |-> max_block]

\* SendTransactionParams: the field the wait depends on
SendTransactionParams(max_block_number) == [max_block_number |-> max_block_number]

\* a send_private_transaction that hands the handle no deadline
SendPrivateTransactionNoDeadline(params, hash) == PendingTransaction(hash, None)

\* send_private_transaction, once the relay has answered with the hash
SendPrivateTransaction(params, hash) ==
    PendingTransaction(hash, params.max_block_number)

\* a first poll that returns only a receipt of a block up to the deadline
FirstPollWithinDeadline(hash, max_block, tx) ==
    IF IsSome(tx) /\ Unwrap(tx).block_number <= max_block
    THEN Some(Ok(Unwrap(tx), Unwrap(tx).block_number))
    ELSE None

\* wait_for_tx!, the poll before the subscription: what it returns, or None
\* when it goes on to subscribe
WaitForTxFirstPoll(hash, max_block, tx) ==
    IF IsSome(tx) THEN Some(Ok(Unwrap(tx), Unwrap(tx).block_number)) ELSE None

\* a loop body that checks the deadline before it asks for the receipt
OnBlockDeadlineFirst(hash, max_block, block_number, tx) ==
    IF block_number >= max_block
    THEN Some(TransactionTimeout(hash, block_number))
    ELSE IF IsSome(tx) THEN Some(Ok(Unwrap(tx), block_number)) ELSE None

\* a loop body without the deadline
OnBlockNoDeadline(hash, max_block, block_number, tx) ==
    IF IsSome(tx) THEN Some(Ok(Unwrap(tx), block_number)) ELSE None

\* wait_for_tx!, the body of the loop for the block numbered block_number:
\* what it returns, or None when the loop goes on
WaitForTxOnBlock(hash, max_block, block_number, tx) ==
    IF IsSome(tx) THEN Some(Ok(Unwrap(tx), block_number))
    ELSE IF block_number >= max_block
         THEN Some(TransactionTimeout(hash, block_number))
         ELSE None

\* an inclusion() that hands on what the wait returned
InclusionUnchecked(waited) == waited

\* PendingTransaction::inclusion, after wait_for_tx_receipt has returned
InclusionOfWaited(waited) ==
    IF waited.kind # "Ok" THEN waited
    ELSE IF waited.item.status # 1
         THEN TransactionRevert(waited.item)
         ELSE Ok(waited.item, waited.block)

\* the wait ends: wait_for_tx_receipt returns waited
TxReturn(w, waited) ==
    [w EXCEPT !.pc = "done", !.waited = Some(waited),
              !.result = Some(InclusionOfWaited(waited))]

\* `?` on a failed provider call of the wait: wait_for_tx_receipt returns
\* the provider error
TxProviderFailure(w) == TxReturn([w EXCEPT !.failed = TRUE], ProviderError)

InitTx ==
    /\ HashesIdle
    /\ BundleIdle
    /\ ClientIdle
    /\ height = 0
    /\ receipts = [h \in {PendingTxHash} |-> None]
    /\ \E params \in {SendTransactionParams(m) :
                          m \in {None} \cup {Some(b) : b \in 1..MaxHeight}} :
          /\ ptx = SendPrivateTransaction(params, PendingTxHash)
          /\ txw = [pc |-> "created", params |-> params, height_reads |-> 0,
                    start |-> None, max_block |-> 0, sub_at |-> 0, seen |-> 0,
                    subs |-> 0, polls |-> 0, first |-> None, last |-> None,
                    failed |-> FALSE, waited |-> None, result |-> None]

\* inclusion(): the deadline is the handle's max_block, or the chain height
\* plus TX_WAIT_MAX_BLOCKS
TxInclusion ==
    /\ txw.pc = "created"
    /\ \/ /\ IsSome(ptx.max_block)
          /\ txw' = [txw EXCEPT !.pc = "first_poll", !.max_block = Unwrap(ptx.max_block)]
       \/ /\ ptx.max_block = None
          /\ txw' = [txw EXCEPT !.pc = "first_poll", !.height_reads = @ + 1,
                                !.start = Some(height),
                                !.max_block = height + TX_WAIT_MAX_BLOCKS]
       \/ /\ ptx.max_block = None
          /\ txw' = [txw EXCEPT !.pc = "done", !.height_reads = @ + 1,
                                !.failed = TRUE,
                                !.result = Some(ProviderError)]
    /\ UNCHANGED <<hashVars, chainVars, ptx, bundleVars, clientVars>>

\* the receipt query before the subscription
TxFirstPoll ==
    /\ txw.pc = "first_poll"
    /\ \/ LET tx == GetTransactionReceipt(ptx.hash)
              r == WaitForTxFirstPoll(ptx.hash, txw.max_block, tx)
              w == [txw EXCEPT !.polls = 1, !.first = tx, !.last = tx]
          IN txw' = IF IsSome(r) THEN TxReturn(w, Unwrap(r))
                    ELSE [w EXCEPT !.pc = "subscribe"]
       \/ txw' = TxProviderFailure(txw)
    /\ UNCHANGED <<hashVars, chainVars, ptx, bundleVars, clientVars>>

\* subscribe_blocks(): the stream delivers the blocks produced from now on
TxSubscribe ==
    /\ txw.pc = "subscribe"
    /\ \/ txw' = [txw EXCEPT !.pc = "loop", !.subs = @ + 1,
                              !.sub_at = height, !.seen = height]
       \/ txw' = TxProviderFailure(txw)
    /\ UNCHANGED <<hashVars, chainVars, ptx, bundleVars, clientVars>>

\* a wait that takes its blocks from a stream it shares with the wait of
\* the bundle: the block it consumes is gone for the other wait
TxNextBlockSharedStream ==
    /\ txw.pc = "loop"
    /\ txw.seen < height
    /\ LET block_number == txw.seen + 1
       IN /\ \/ LET tx == GetTransactionReceipt(ptx.hash)
                    r == WaitForTxOnBlock(ptx.hash, txw.max_block, block_number, tx)
                    w == [txw EXCEPT !.seen = block_number, !.polls = @ + 1, !.last = tx]
                IN txw' = IF IsSome(r) THEN TxReturn(w, Unwrap(r)) ELSE w
             \/ txw' = TxProviderFailure([txw EXCEPT !.seen = block_number])
          /\ bw' = IF bw # None /\ bw.pc = "loop" /\ bw.seen < block_number
                   THEN [bw EXCEPT !.seen = block_number]
                   ELSE bw
    /\ UNCHANGED <<hashVars, chainVars, ptx, pb, clientVars>>

\* the stream delivers the next block: the receipt query, then the deadline
TxNextBlock ==
    /\ txw.pc = "loop"
    /\ txw.seen < height
    /\ LET block_number == txw.seen + 1
       IN \/ LET tx == GetTransactionReceipt(ptx.hash)
                 r == WaitForTxOnBlock(ptx.hash, txw.max_block, block_number, tx)
                 w == [txw EXCEPT !.seen = block_number, !.polls = @ + 1, !.last = tx]
             IN txw' = IF IsSome(r) THEN TxReturn(w, Unwrap(r)) ELSE w
          \/ txw' = TxProviderFailure([txw EXCEPT !.seen = block_number])
    /\ UNCHANGED <<hashVars, chainVars, ptx, bundleVars, clientVars>>

\* the stream ends: the statement after the loop is unreachable!()
TxStreamEnd ==
    /\ txw.pc = "loop"
    /\ txw' = [txw EXCEPT !.pc = "done", !.waited = Some(Unreachable),
                          !.result = Some(Unreachable)]
    /\ UNCHANGED <<hashVars, chainVars, ptx, bundleVars, clientVars>>

TxMineBlock == MineBlock /\ UNCHANGED <<hashVars, txVars, bundleVars, clientVars>>

\* a step of the wait itself
TxWaitStep == TxInclusion \/ TxFirstPoll \/ TxSubscribe \/ TxNextBlock \/ TxStreamEnd

NextTx == TxMineBlock \/ TxInclusion \/ TxFirstPoll \/ TxSubscribe \/ TxNextBlock \/ TxStreamEnd

SpecTx == InitTx /\ [][NextTx]_vars

----------------------------------------------------------------------------
(* Waiter::wait_for_bundle, fetch_receipts (helpers/provider.rs) and       *)
(* PendingBundle::inclusion (api/types/rpc/helpers.rs)                     *)

\* Inclusion of SendBundleParams
Inclusion(block, max_block) == [block |-> block, max_block |-> max_block]

\* SendBundleParams: the fields the wait reads
SendBundleParams(b, inclusion) == [body |-> b, inclusion |-> inclusion]

\* PendingBundle::new
PendingBundle(hash, request) == [hash |-> hash, request |-> request]

\* the bundle hash the relay returned
BundleHash == Keccak256(6)

\* the bodies of the submitted bundles: three hashes over two levels, two
\* hashes, one hash twice, one hash, and no hash at all (an empty nested
\* bundle, an empty body)
BundleBodies ==
    {<<Signed(0), Bundle(<<Tx(9), Signed(1)>>)>>,
     <<Signed(0), Tx(9)>>,
     <<Tx(Keccak256(0)), Signed(0)>>,
     <<Signed(1)>>,
     <<Bundle(<<>>)>>,
     <<>>}

BundleRequests ==
    {SendBundleParams(b, Inclusion(block, max_block)) :
        b \in BundleBodies,
        block \in {1, 2},
        max_block \in {None, Some(2)}}

RECURSIVE Flatten(_)
\* Iterator::flatten over the Option<TransactionReceipt> of each query
Flatten(answers) ==
    IF answers = <<>> THEN <<>>
    ELSE Head(answers) \o Flatten(Tail(answers))

\* Ok(receipts) of fetch_receipts
Fetched(rs) == [kind |-> "Fetched", receipts |-> rs]

\* a fetch_receipts without the test for a partial landing
FetchReceiptsNoDiscard(hashes, answers) ==
    LET rs == Flatten(answers)
    IN IF rs = <<>> THEN Fetched(rs)
       ELSE IF Cardinality({i \in 1..Len(rs) : rs[i].status # 1}) > 0
            THEN BundleRevert(rs)
            ELSE Fetched(rs)

\* a fetch_receipts that reports only the reverted receipts
FetchReceiptsRevertedOnly(hashes, answers) ==
    LET rs == Flatten(answers)
        Reverted(r) == r.status # 1
    IN IF rs = <<>> THEN Fetched(rs)
       ELSE IF Len(rs) < Len(hashes) THEN BundleDiscard(rs)
       ELSE IF Cardinality({i \in 1..Len(rs) : rs[i].status # 1}) > 0
            THEN BundleRevert(SelectSeq(rs, Reverted))
            ELSE Fetched(rs)

\* a fetch_receipts that takes a partial landing for no landing yet
FetchReceiptsPartialPending(hashes, answers) ==
    LET rs == Flatten(answers)
    IN IF rs = <<>> \/ Len(rs) < Len(hashes) THEN Fetched(<<>>)
       ELSE IF Cardinality({i \in 1..Len(rs) : rs[i].status # 1}) > 0
            THEN BundleRevert(rs)
            ELSE Fetched(rs)

\* a fetch_receipts that tests for a failing receipt before it tests for a
\* partial landing
FetchReceiptsRevertFirst(hashes, answers) ==
    LET rs == Flatten(answers)
    IN IF rs = <<>> THEN Fetched(rs)
       ELSE IF Cardinality({i \in 1..Len(rs) : rs[i].status # 1}) > 0
            THEN BundleRevert(rs)
            ELSE IF Len(rs) < Len(hashes) THEN BundleDiscard(rs)
                 ELSE Fetched(rs)

\* fetch_receipts, once every query has been answered
FetchReceipts(hashes, answers) ==
    LET rs == Flatten(answers)
    IN IF rs = <<>> THEN Fetched(rs)
       ELSE IF Len(rs) < Len(hashes) THEN BundleDiscard(rs)
       ELSE IF Cardinality({i \in 1..Len(rs) : rs[i].status # 1}) > 0
            THEN BundleRevert(rs)
            ELSE Fetched(rs)

\* check_inclusion!: what it makes wait_for_bundle return, or None
CheckInclusion(fetched) ==
    IF fetched.kind # "Fetched" THEN Some(fetched)
    ELSE IF Len(fetched.receipts) > 0
         THEN Some(Ok(fetched.receipts, fetched.receipts[1].block_number))
         ELSE None

\* a loop body that tests the deadline before the outcome of the check
CheckDeadlineFirst(hashes, max_block, block, fetched) ==
    IF IsSome(block) /\ Unwrap(block) > max_block
    THEN Some(BundleTimeout(hashes, Unwrap(block)))
    ELSE CheckInclusion(fetched)

\* a loop body that reports the deadline in place of the block observed
CheckTimeoutReportsDeadline(hashes, max_block, block, fetched) ==
    LET r == CheckInclusion(fetched)
    IN IF IsSome(r) THEN r
       ELSE IF IsSome(block) /\ Unwrap(block) > max_block
            THEN Some(BundleTimeout(hashes, max_block))
            ELSE None

\* a loop body that turns a success found past the deadline into a timeout
CheckSuccessWithinDeadline(hashes, max_block, block, fetched) ==
    LET r == CheckInclusion(fetched)
        late == IsSome(block) /\ Unwrap(block) > max_block
    IN IF IsSome(r) /\ ~(late /\ Unwrap(r).kind = "Ok") THEN r
       ELSE IF late THEN Some(BundleTimeout(hashes, Unwrap(block)))
            ELSE None

\* a check that takes as many receipts as hashes for a success
CheckCountIsSuccess(hashes, max_block, block, fetched) ==
    IF fetched.kind = "Fetched" /\ Len(fetched.receipts) = Len(hashes)
    THEN Some(Ok(fetched.receipts, IF IsSome(block) THEN Unwrap(block) ELSE 0))
    ELSE IF fetched.kind # "Fetched" THEN Some(fetched)
         ELSE IF IsSome(block) /\ Unwrap(block) > max_block
              THEN Some(BundleTimeout(hashes, Unwrap(block)))
              ELSE None

\* wait_for_bundle after the queries of one check: the check before the
\* subscription (block = None) or the loop body for the block given
WaitForBundleCheck(hashes, max_block, block, fetched) ==
    LET r == CheckInclusion(fetched)
    IN IF IsSome(r) THEN r
       ELSE IF IsSome(block) /\ Unwrap(block) > max_block
            THEN Some(BundleTimeout(hashes, Unwrap(block)))
            ELSE None

\* a deadline that is always the target block
BundleMaxBlockTarget(request) == request.inclusion.block

\* PendingBundle::inclusion: the deadline handed to wait_for_bundle
BundleMaxBlock(request) ==
    IF IsSome(request.inclusion.max_block)
    THEN Unwrap(request.inclusion.max_block)
    ELSE request.inclusion.block

\* every query of the check has been answered
PollDone(w) ==
    LET fetched == FetchReceipts(w.txs, w.answers)
        r == WaitForBundleCheck(w.txs, w.max_block, w.block, fetched)
        w1 == [w EXCEPT !.polls = @ + 1]
    IN IF IsSome(r) THEN [w1 EXCEPT !.pc = "done", !.result = r]
       ELSE [w1 EXCEPT !.pc = IF w.block = None THEN "subscribe" ELSE "loop"]

\* fetch_receipts: one query per hash, all in flight together
PollStart(w) ==
    LET w1 == [w EXCEPT !.pc = "polling",
                        !.answers = [i \in 1..Len(w.txs) |-> None],
                        !.answered = {}]
    IN IF w.txs = <<>> THEN PollDone(w1) ELSE w1

\* a failed provider call that is tried again
BundleProviderFailureRetried(w) == [w EXCEPT !.failed = TRUE]

\* `?` on a failed provider call of the wait (one query of try_join_all, or
\* subscribe_blocks): wait_for_bundle returns the provider error
BundleProviderFailure(w) ==
    [w EXCEPT !.pc = "done", !.failed = TRUE, !.result = Some(ProviderError)]

InitBundle ==
    /\ HashesIdle
    /\ TxIdle
    /\ ClientIdle
    /\ height = 0
    /\ pb \in {PendingBundle(BundleHash, request) : request \in BundleRequests}
    /\ receipts = [h \in ChainHashes(pb.request.body) |-> None]
    /\ bw = [pc |-> "created", txs |-> <<>>, max_block |-> 0, sub_at |-> 0,
             seen |-> 0, subs |-> 0, block |-> None, answers |-> <<>>,
             answered |-> {}, polls |-> 0, failed |-> FALSE, result |-> None]

\* inclusion(): the flattened hashes, the deadline, and the first check
BundleInclusion ==
    /\ bw.pc = "created"
    /\ bw' = PollStart([bw EXCEPT !.txs = HashesCollect(pb.request.body),
                                  !.max_block = BundleMaxBlock(pb.request)])
    /\ UNCHANGED <<hashVars, chainVars, txVars, pb, clientVars>>

\* one of the receipt queries in flight is answered, or fails
BundleAnswer ==
    /\ bw.pc = "polling"
    /\ \E i \in (1..Len(bw.txs)) \ bw.answered :
          \/ LET w == [bw EXCEPT !.answers[i] = GetTransactionReceipt(bw.txs[i]),
                                 !.answered = @ \cup {i}]
             IN bw' = IF w.answered = 1..Len(w.txs) THEN PollDone(w) ELSE w
          \/ bw' = BundleProviderFailure(bw)
    /\ UNCHANGED <<hashVars, chainVars, txVars, pb, clientVars>>

\* subscribe_blocks(): the stream delivers the blocks produced from now on
BundleSubscribe ==
    /\ bw.pc = "subscribe"
    /\ \/ bw' = [bw EXCEPT !.pc = "loop", !.subs = @ + 1,
                            !.sub_at = height, !.seen = height]
       \/ bw' = BundleProviderFailure(bw)
    /\ UNCHANGED <<hashVars, chainVars, txVars, pb, clientVars>>

\* the stream delivers the next block: the check, then the deadline
BundleNextBlock ==
    /\ bw.pc = "loop"
    /\ bw.seen < height
    /\ bw' = PollStart([bw EXCEPT !.seen = @ + 1, !.block = Some(bw.seen + 1)])
    /\ UNCHANGED <<hashVars, chainVars, txVars, pb, clientVars>>

\* the stream ends: the statement after the loop is unreachable!()
BundleStreamEnd ==
    /\ bw.pc = "loop"
    /\ bw' = [bw EXCEPT !.pc = "done", !.result = Some(Unreachable)]
    /\ UNCHANGED <<hashVars, chainVars, txVars, pb, clientVars>>

BundleMineBlock == MineBlock /\ UNCHANGED <<hashVars, txVars, bundleVars, clientVars>>

\* a step of the wait itself
BundleWaitStep ==
    BundleInclusion \/ BundleAnswer \/ BundleSubscribe \/ BundleNextBlock \/ BundleStreamEnd

NextBundle ==
    \/ BundleMineBlock
    \/ BundleInclusion
    \/ BundleAnswer
    \/ BundleSubscribe
    \/ BundleNextBlock
    \/ BundleStreamEnd

SpecBundle == InitBundle /\ [][NextBundle]_vars

----------------------------------------------------------------------------
(* Either wait: a PendingTransaction or a PendingBundle awaiting inclusion *)

InitWaits == InitTx \/ InitBundle

NextWaits == (BundleIdle /\ NextTx) \/ (TxIdle /\ NextBundle)

SpecWaits == InitWaits /\ [][NextWaits]_vars

\* the steps that the runtime takes, when they are ready, once inclusion()
\* has been called: each await of the wait but the end of the block stream
TxProgress == TxFirstPoll \/ TxSubscribe \/ TxNextBlock
BundleProgress == BundleAnswer \/ BundleSubscribe \/ BundleNextBlock

\* the waits under fair scheduling: a wait under way that can take a step
\* takes it, and the chain produces its blocks
WaitsFairness ==
    /\ WF_vars(BundleIdle /\ TxProgress)
    /\ WF_vars(TxIdle /\ BundleProgress)
    /\ WF_vars(BundleIdle /\ TxMineBlock)
    /\ WF_vars(TxIdle /\ BundleMineBlock)

\* the waits of a transaction and of a bundle of up to two hashes
InitWaitsFair == InitTx \/ (InitBundle /\ Len(PreOrder(pb.request.body)) <= 2)

SpecWaitsFair == InitWaitsFair /\ [][NextWaits]_vars /\ WaitsFairness

----------------------------------------------------------------------------
(* MevShareRpcClient (api/rpc_client.rs): the request-id counter and post() *)

\* post() calls made on one client
MaxCalls == 2

\* i32::MAX and i32::MIN, the range of the AtomicI32 counter
I32_MAX == 2147483647
I32_MIN == (-I32_MAX) - 1

\* new_request_id: nanoseconds since the epoch % 1_000_000
RequestIdModulus == 1000000
NewRequestIds == {0, 1, RequestIdModulus - 1}

\* the counter when the calls of the model start: as new_request_id made it,
\* or as the earlier calls of a long-lived client have left it
RequestIds == NewRequestIds \cup {I32_MAX - 1, I32_MAX}

\* i32 addition of AtomicI32::fetch_add, which wraps around on overflow
WrappingAdd(x, val) ==
    IF x > I32_MAX - val THEN I32_MIN + (val - (I32_MAX - x) - 1) ELSE x + val

\* a read of the counter that stores no increment
FetchAddLoadOnly(counter, val) == [previous |-> counter, value |-> counter]

\* AtomicI32::fetch_add(val, Relaxed): one atomic read-modify-write, which
\* returns the previous value
FetchAdd(counter, val) == [previous |-> counter, value |-> WrappingAdd(counter, val)]

\* JSON values of a response body
JNull == [t |-> "null"]
JNum(n) == [t |-> "number", n |-> n]
JStr(s) == [t |-> "string", s |-> s]
JObj(f) == [t |-> "object", f |-> f]
\* a response text that is not JSON
NotJson == [t |-> "text"]

\* RpcError and the result of post()
RpcOk(result) == [kind |-> "Ok", result |-> result]
RpcJsonSerde == [kind |-> "Json", variant |-> "Serde"]
RpcJsonDeserialization(text) == [kind |-> "Json", variant |-> "Deserialization", text |-> text]
RpcResponse(err) == [kind |-> "Response", error |-> err]
RpcSigning == [kind |-> "Signing"]
RpcNetwork == [kind |-> "Network"]
RpcInvalidHeader == [kind |-> "InvalidHeader"]

HasKey(v, k) == v.t = "object" /\ k \in DOMAIN v.f

\* Deserialize of String, i32 and Option<_> fields
DeString(v) == IF v.t = "string" THEN Some(v.s) ELSE None
DeI32(v) == IF v.t = "number" THEN Some(v.n) ELSE None
\* an Option<String> field: absent or null is None; Some(None) is a failure
DeOptionString(v, k) ==
    IF ~HasKey(v, k) \/ v.f[k] = JNull THEN Some(None)
    ELSE IF IsSome(DeString(v.f[k])) THEN Some(DeString(v.f[k])) ELSE None
DeOptionI32(v, k) ==
    IF ~HasKey(v, k) \/ v.f[k] = JNull THEN Some(None)
    ELSE IF IsSome(DeI32(v.f[k])) THEN Some(DeI32(v.f[k])) ELSE None

\* T of post<T, P>: SendBundleResponse { bundle_hash }
DeSendBundleResponse(v) ==
    IF HasKey(v, "bundleHash") /\ IsSome(DeString(v.f["bundleHash"]))
    THEN Some([bundle_hash |-> Unwrap(DeString(v.f["bundleHash"]))])
    ELSE None

\* JsonRpcResponseSuccess<T>: jsonrpc, id and result are required
DeJsonRpcResponseSuccess(v) ==
    IF /\ HasKey(v, "jsonrpc") /\ IsSome(DeString(v.f["jsonrpc"]))
       /\ HasKey(v, "id") /\ IsSome(DeI32(v.f["id"]))
       /\ HasKey(v, "result") /\ IsSome(DeSendBundleResponse(v.f["result"]))
    THEN Some([variant |-> "Success",
               jsonrpc |-> Unwrap(DeString(v.f["jsonrpc"])),
               id |-> Unwrap(DeI32(v.f["id"])),
               result |-> Unwrap(DeSendBundleResponse(v.f["result"]))])
    ELSE None

\* the untagged enum Error: Simple(String), then Detailed { code, message }
DeError(v) ==
    IF IsSome(DeString(v)) THEN Some([variant |-> "Simple", message |-> Unwrap(DeString(v))])
    ELSE IF /\ HasKey(v, "code") /\ IsSome(DeI32(v.f["code"]))
            /\ HasKey(v, "message") /\ IsSome(DeString(v.f["message"]))
         THEN Some([variant |-> "Detailed",
                    code |-> Unwrap(DeI32(v.f["code"])),
                    message |-> Unwrap(DeString(v.f["message"]))])
         ELSE None

\* JsonRpcResponseError: jsonrpc and id are optional, error is required
DeJsonRpcResponseError(v) ==
    IF /\ v.t = "object"
       /\ IsSome(DeOptionString(v, "jsonrpc"))
       /\ IsSome(DeOptionI32(v, "id"))
       /\ HasKey(v, "error") /\ IsSome(DeError(v.f["error"]))
    THEN Some([variant |-> "Error",
               jsonrpc |-> Unwrap(DeOptionString(v, "jsonrpc")),
               id |-> Unwrap(DeOptionI32(v, "id")),
               error |-> Unwrap(DeError(v.f["error"]))])
    ELSE None

\* a JsonRpcResponse that tries the Error variant first
DeJsonRpcResponseErrorFirst(v) ==
    IF IsSome(DeJsonRpcResponseError(v)) THEN DeJsonRpcResponseError(v)
    ELSE DeJsonRpcResponseSuccess(v)

\* serde_json::from_str::<JsonRpcResponse<T>>: the untagged enum tries
\* Success, then Error; None is the serde_json::Error
DeJsonRpcResponse(v) ==
    IF IsSome(DeJsonRpcResponseSuccess(v)) THEN DeJsonRpcResponseSuccess(v)
    ELSE DeJsonRpcResponseError(v)

\* post(), from the response text to the value returned
PostResponse(text) ==
    LET response == DeJsonRpcResponse(text)
    IN IF response = None THEN RpcJsonDeserialization(text)
       ELSE IF Unwrap(response).variant = "Error" THEN RpcResponse(Unwrap(response))
       ELSE RpcOk(Unwrap(response).result)

\* the response texts the relay (or a proxy before it) answers with
GoodResult == JObj([bundleHash |-> JStr("0xb1")])
DetailedError == JObj([code |-> JNum(-32000), message |-> JStr("rejected")])
ResponseTexts ==
    {NotJson,
     JStr("ok"),
     JObj([jsonrpc |-> JStr("2.0"), id |-> JNum(1), result |-> GoodResult]),
     JObj([jsonrpc |-> JStr("2.0"), id |-> JNum(1), result |-> JNum(0)]),
     JObj([jsonrpc |-> JStr("2.0"), id |-> JNum(1), error |-> DetailedError]),
     JObj([error |-> JStr("unauthorized")]),
     JObj([jsonrpc |-> JStr("2.0"), id |-> JNull, error |-> DetailedError]),
     JObj([jsonrpc |-> JStr("2.0"), id |-> JNum(1), result |-> GoodResult,
           error |-> DetailedError]),
     JObj([jsonrpc |-> JStr("2.0"), id |-> JNum(1),
           error |-> JObj([code |-> JNum(-32000)])]),
     JObj([jsonrpc |-> JStr("2.0"), id |-> JNum(1)]),
     JObj([id |-> JNum(1), result |-> GoodResult]),
     JObj([jsonrpc |-> JStr("2.0"), id |-> JNull, result |-> GoodResult]),
     JObj([id |-> JNull, result |-> GoodResult, error |-> JStr("busy")])}

\* JsonRpcRequest: the envelope of a request
JsonRpcRequest(id, method, params) ==
    [jsonrpc |-> "2.0", id |-> id, method |-> method, params |-> params]

\* serde_json::to_string / RequestBuilder::json: the JSON text of a value
SerdeToString(value) == [json_text_of |-> value]

\* keccak256 of a byte string
Keccak256Bytes(bytes) == [keccak256_of |-> bytes]

\* the wallet that signs the requests, and its address
AuthWallet == "auth_wallet"
Address(wallet) == [address_of |-> wallet]

\* Signer::sign_message
SignMessage(wallet, message) == [signer |-> Address(wallet), message |-> message]

\* a signature over the parameters alone
SignatureOverParams(wallet, request) ==
    [address |-> Address(wallet),
     signature |-> SignMessage(wallet,
         [prefix |-> "0x", hex |-> Keccak256Bytes(SerdeToString(request.params))])]

\* the value of the signature header: the address of the wallet, then the
\* signature of "0x" and the hex keccak hash of the serialized envelope
SignatureHeader(wallet, request) ==
    [address |-> Address(wallet),
     signature |-> SignMessage(wallet,
         [prefix |-> "0x", hex |-> Keccak256Bytes(SerdeToString(request))])]

\* the HTTP request of post(): its two headers and its JSON body
HttpPost(signature, request) ==
    [headers |-> [content_type |-> "application/json",
                  x_flashbots_signature |-> signature],
     json |-> SerdeToString(request)]

\* the method and the params of the c-th post() call
CallArguments(c) ==
    IF c % 2 = 1
    THEN [method |-> "mev_sendBundle", params |-> JStr("bundle")]
    ELSE [method |-> "mev_simBundle", params |-> JStr("bundle and options")]

\* a post() call that has not started
NewCall ==
    [pc |-> "idle", id |-> None, body |-> None, signature |-> None,
     sent |-> None, text |-> None, failure |-> None, result |-> None]

CallReturn(call, result) == [call EXCEPT !.pc = "done", !.result = Some(result)]

InitRpc ==
    /\ HashesIdle
    /\ ChainIdle
    /\ TxIdle
    /\ BundleIdle
    /\ OpIdle
    /\ SseIdle
    /\ EventIdle
    /\ NetIdle
    /\ RestIdle
    /\ ExampleIdle
    /\ request_id \in RequestIds
    /\ calls = [c \in 1..MaxCalls |-> NewCall]
    /\ issued = <<>>

\* post(), up to the first await: the envelope takes its id from the counter
\* and then serializes the params (serde_json::to_value(params)?)
PostBuild(c) ==
    /\ calls[c].pc = "idle"
    /\ LET f == FetchAdd(request_id, 1)
           call == [calls[c] EXCEPT
                      !.id = Some(f.previous),
                      !.body = Some(JsonRpcRequest(f.previous,
                                                   CallArguments(c).method,
                                                   CallArguments(c).params))]
       IN /\ request_id' = f.value
          /\ issued' = Append(issued, f.previous)
          /\ \/ calls' = [calls EXCEPT ![c] = [call EXCEPT !.pc = "sign"]]
             \/ calls' = [calls EXCEPT ![c] =
                    CallReturn([call EXCEPT !.failure = Some("params")], RpcJsonSerde)]
    /\ UNCHANGED <<hashVars, chainVars, txVars, bundleVars, opVars, sseVars, eventVars,
                   netVars, restVars, exampleVars>>

\* auth_wallet.sign_message(..).await?
PostSign(c) ==
    /\ calls[c].pc = "sign"
    /\ \/ calls' = [calls EXCEPT ![c].pc = "send",
                                  ![c].signature =
                                      Some(SignatureHeader(AuthWallet,
                                                           Unwrap(calls[c].body)))]
       \/ calls' = [calls EXCEPT ![c] =
              CallReturn([calls[c] EXCEPT !.failure = Some("signing")], RpcSigning)]
    /\ UNCHANGED <<hashVars, chainVars, txVars, bundleVars, opVars, request_id, issued,
                   sseVars, eventVars, netVars, restVars, exampleVars>>

\* HeaderValue::from_str(&signature)?, then http.post(..).send().await?
PostSend(c) ==
    /\ calls[c].pc = "send"
    /\ LET request == HttpPost(Unwrap(calls[c].signature), Unwrap(calls[c].body))
       IN \/ calls' = [calls EXCEPT ![c] =
                 CallReturn([calls[c] EXCEPT !.failure = Some("header")],
                            RpcInvalidHeader)]
          \/ calls' = [calls EXCEPT ![c].pc = "text", ![c].sent = Some(request)]
          \/ calls' = [calls EXCEPT ![c] =
                 CallReturn([calls[c] EXCEPT !.sent = Some(request),
                                             !.failure = Some("transport")],
                            RpcNetwork)]
    /\ UNCHANGED <<hashVars, chainVars, txVars, bundleVars, opVars, request_id, issued,
                   sseVars, eventVars, netVars, restVars, exampleVars>>

\* .text().await?, and the rest of post(): the response is deserialized
PostText(c) ==
    /\ calls[c].pc = "text"
    /\ \/ \E text \in ResponseTexts :
             calls' = [calls EXCEPT ![c] =
                 CallReturn([calls[c] EXCEPT !.text = Some(text)], PostResponse(text))]
       \/ calls' = [calls EXCEPT ![c] =
              CallReturn([calls[c] EXCEPT !.failure = Some("transport")], RpcNetwork)]
    /\ UNCHANGED <<hashVars, chainVars, txVars, bundleVars, opVars, request_id, issued,
                   sseVars, eventVars, netVars, restVars, exampleVars>>

NextRpc == \E c \in 1..MaxCalls : PostBuild(c) \/ PostSign(c) \/ PostSend(c) \/ PostText(c)

SpecRpc == InitRpc /\ [][NextRpc]_vars

----------------------------------------------------------------------------
(* Concurrent use of one client: a PendingTransaction and a PendingBundle   *)
(* awaiting inclusion on one provider while post() calls run on one         *)
(* MevShareRpcClient                                                        *)

\* blocks produced while the tasks run side by side
MaxRaceHeight == 2

InitConcurrent ==
    /\ HashesIdle
    /\ OpIdle
    /\ SseIdle
    /\ EventIdle
    /\ NetIdle
    /\ RestIdle
    /\ ExampleIdle
    /\ height = 0
    /\ \E params \in {SendTransactionParams(Some(2))} :
          /\ ptx = SendPrivateTransaction(params, PendingTxHash)
          /\ txw = [pc |-> "created", params |-> params, height_reads |-> 0,
                    start |-> None, max_block |-> 0, sub_at |-> 0, seen |-> 0,
                    subs |-> 0, polls |-> 0, first |-> None, last |-> None,
                    failed |-> FALSE, waited |-> None, result |-> None]
    /\ pb = PendingBundle(BundleHash,
                          SendBundleParams(<<Tx(PendingTxHash)>>,
                                           Inclusion(1, Some(1))))
    /\ receipts = [h \in ChainHashes(pb.request.body) \cup {PendingTxHash} |-> None]
    /\ bw = [pc |-> "created", txs |-> <<>>, max_block |-> 0, sub_at |-> 0,
             seen |-> 0, subs |-> 0, block |-> None, answers |-> <<>>,
             answered |-> {}, polls |-> 0, failed |-> FALSE, result |-> None]
    /\ request_id = 0
    /\ calls = [c \in 1..MaxCalls |-> NewCall]
    /\ issued = <<>>

\* the tasks run interleaved, each at its own awaits, on one chain
ConcurrentMineBlock == height < MaxRaceHeight /\ TxMineBlock

NextConcurrent ==
    \/ ConcurrentMineBlock
    \/ TxWaitStep
    \/ BundleWaitStep
    \/ NextRpc

SpecConcurrent == InitConcurrent /\ [][NextConcurrent]_vars

----------------------------------------------------------------------------
(* MevShareEvent and as_transaction (api/types/streaming)                  *)

\* transactions and logs an event lists
MaxTxs == 3
MaxLogs == 2

\* Vec::first / slice::first
First(s) == IF s = <<>> THEN None ELSE Some(s[1])

\* MevShareEvent: the fields as_transaction reads
MevShareEvent(hash, logs, txs) == [hash |-> hash, logs |-> logs, txs |-> txs]

\* streaming::Transaction
Transaction(to) == [to |-> to]

RECURSIVE SeqsUpTo(_, _)
\* the sequences over S of length up to n
SeqsUpTo(S, n) ==
    IF n = 0 THEN {<<>>}
    ELSE LET shorter == SeqsUpTo(S, n - 1)
         IN shorter \cup {Append(s, x) : s \in {t \in shorter : Len(t) = n - 1}, x \in S}

\* the events of the relay: a hash, the logs (absent, or a list) and the
\* transactions (absent, or a list)
Events ==
    {MevShareEvent(hash, logs, txs) :
        hash \in {Keccak256(0), Keccak256(6)},
        logs \in {None} \cup {Some(l) : l \in SeqsUpTo({"log0", "log1"}, MaxLogs)},
        txs \in {None} \cup
                {Some(t) : t \in SeqsUpTo({Transaction(None), Transaction(Some("0xa"))}, MaxTxs)}}

\* an as_transaction that takes an event with an empty list for a transaction
AsTransactionAtMostOne(ev) ==
    LET logs == IF IsSome(ev.logs) THEN First(Unwrap(ev.logs)) ELSE None
    IN IF ev.txs = None THEN Some(<<ev.hash, None, logs>>)
       ELSE IF Len(Unwrap(ev.txs)) <= 1
            THEN Some(<<ev.hash, First(Unwrap(ev.txs)), logs>>)
            ELSE None

\* MevShareEvent::as_transaction
AsTransaction(ev) ==
    LET logs == IF IsSome(ev.logs) THEN First(Unwrap(ev.logs)) ELSE None
    IN IF ev.txs = None THEN Some(<<ev.hash, None, logs>>)
       ELSE IF Len(Unwrap(ev.txs)) = 1
            THEN Some(<<ev.hash, First(Unwrap(ev.txs)), logs>>)
            ELSE None

InitEvent ==
    /\ HashesIdle
    /\ ChainIdle
    /\ TxIdle
    /\ BundleIdle
    /\ OpIdle
    /\ RpcIdle
    /\ SseIdle
    /\ NetIdle
    /\ RestIdle
    /\ ExampleIdle
    /\ event \in {Some(ev) : ev \in Events}
    /\ classified = None

\* event.as_transaction()
CallAsTransaction ==
    /\ classified = None
    /\ classified' = Some(AsTransaction(Unwrap(event)))
    /\ UNCHANGED <<hashVars, chainVars, txVars, bundleVars, opVars, rpcVars, sseVars,
                   event, netVars, restVars, exampleVars>>

NextEvent == CallAsTransaction

SpecEvent == InitEvent /\ [][NextEvent]_vars

----------------------------------------------------------------------------
(* subscribe_bundles (client.rs): the EventSource and the filter_map on it  *)

\* events the EventSource yields in a run
MaxEvents == 4

\* a JSON array
JArr(a) == [t |-> "array", a |-> a]

\* the items the EventSource yields: Ok(Event::Open), Ok(Event::Message(msg))
\* and Err(err)
EsOpen == [kind |-> "Open"]
EsMessage(data) == [kind |-> "Message", data |-> data]
EsErr(err) == [kind |-> "Err", err |-> err]

\* the items of the stream subscribe_bundles returns
ItemEvent(ev) == [kind |-> "Event", event |-> ev]
ItemJsonDeserialization(text) == [kind |-> "Json", variant |-> "Deserialization", text |-> text]
ItemEventSource(err) == [kind |-> "EventSource", err |-> err]

\* Deserialize of streaming::Transaction: every field is optional
DeTransaction(v) ==
    IF v.t = "object" /\ IsSome(DeOptionString(v, "to"))
    THEN Some(Transaction(Unwrap(DeOptionString(v, "to"))))
    ELSE None

\* Deserialize of Log, by its address
DeLog(v) ==
    IF HasKey(v, "address") /\ IsSome(DeString(v.f["address"]))
    THEN DeString(v.f["address"])
    ELSE None

\* an Option<Vec<Transaction>> field: absent or null is None, a list of
\* transactions is Some; Some(None) is a failure
DeOptionTxs(v, k) ==
    IF ~HasKey(v, k) \/ v.f[k] = JNull THEN Some(None)
    ELSE IF v.f[k].t = "array" /\ \A i \in 1..Len(v.f[k].a) : IsSome(DeTransaction(v.f[k].a[i]))
         THEN Some(Some([i \in 1..Len(v.f[k].a) |-> Unwrap(DeTransaction(v.f[k].a[i]))]))
         ELSE None

DeOptionLogs(v, k) ==
    IF ~HasKey(v, k) \/ v.f[k] = JNull THEN Some(None)
    ELSE IF v.f[k].t = "array" /\ \A i \in 1..Len(v.f[k].a) : IsSome(DeLog(v.f[k].a[i]))
         THEN Some(Some([i \in 1..Len(v.f[k].a) |-> Unwrap(DeLog(v.f[k].a[i]))]))
         ELSE None

\* serde_json::from_str::<MevShareEvent>: hash is required, logs and txs
\* are optional; None is the serde_json::Error
DeMevShareEvent(v) ==
    IF /\ HasKey(v, "hash") /\ IsSome(DeString(v.f["hash"]))
       /\ IsSome(DeOptionLogs(v, "logs"))
       /\ IsSome(DeOptionTxs(v, "txs"))
    THEN Some(MevShareEvent(Unwrap(DeString(v.f["hash"])),
                            Unwrap(DeOptionLogs(v, "logs")),
                            Unwrap(DeOptionTxs(v, "txs"))))
    ELSE None

\* a closure that drops the messages it cannot deserialize
FilterMapDropsMalformed(ev) ==
    CASE ev.kind = "Open" -> None
      [] ev.kind = "Message" ->
            (IF IsSome(DeMevShareEvent(ev.data))
             THEN Some(ItemEvent(Unwrap(DeMevShareEvent(ev.data))))
             ELSE None)
      [] ev.kind = "Err" -> Some(ItemEventSource(ev.err))

\* the closure of filter_map in subscribe_bundles
SubscribeBundlesFilterMap(ev) ==
    CASE ev.kind = "Open" -> None
      [] ev.kind = "Message" ->
            (IF IsSome(DeMevShareEvent(ev.data))
             THEN Some(ItemEvent(Unwrap(DeMevShareEvent(ev.data))))
             ELSE Some(ItemJsonDeserialization(ev.data)))
      [] ev.kind = "Err" -> Some(ItemEventSource(ev.err))

\* the message bodies of the relay (or of a proxy before it)
MessageData ==
    {NotJson,
     JObj([hash |-> JStr("0xe1")]),
     JObj([hash |-> JStr("0xe2"), logs |-> JNull,
           txs |-> JArr(<<JObj([to |-> JStr("0xa")])>>)]),
     JObj([hash |-> JStr("0xe3"), logs |-> JArr(<<JObj([address |-> JStr("0xc")])>>),
           txs |-> JArr(<<JObj([to |-> JNull]), JObj(<<>>)>>)]),
     JObj([txs |-> JArr(<<>>)]),
     JObj([hash |-> JStr("0xe4"), txs |-> JStr("none")])}

\* the errors of the EventSource: of the transport (the connection fails or
\* is cut) and of the response (status code, content type)
EsErrors == {"Transport", "StreamEnded", "InvalidStatusCode"}

\* the EventSource yields ev and goes to state: the stream of
\* subscribe_bundles passes the item of its closure, if any, to the consumer
Yield(ev, state) ==
    LET item == SubscribeBundlesFilterMap(ev)
    IN /\ es' = [es EXCEPT !.state = state, !.events = Append(@, ev)]
       /\ items' = IF IsSome(item) THEN Append(items, Unwrap(item)) ELSE items

InitSse ==
    /\ HashesIdle
    /\ ChainIdle
    /\ TxIdle
    /\ BundleIdle
    /\ OpIdle
    /\ RpcIdle
    /\ EventIdle
    /\ NetIdle
    /\ RestIdle
    /\ ExampleIdle
    /\ es = [state |-> "connecting", events |-> <<>>]
    /\ items = <<>>

\* the connection is established
SseOpen ==
    /\ es.state = "connecting"
    /\ Len(es.events) < MaxEvents
    /\ Yield(EsOpen, "open")
    /\ UNCHANGED <<hashVars, chainVars, txVars, bundleVars, opVars, rpcVars, eventVars,
                   netVars, restVars, exampleVars>>

\* a message arrives
SseMessage ==
    /\ es.state = "open"
    /\ Len(es.events) < MaxEvents
    /\ \E data \in MessageData : Yield(EsMessage(data), "open")
    /\ UNCHANGED <<hashVars, chainVars, txVars, bundleVars, opVars, rpcVars, eventVars,
                   netVars, restVars, exampleVars>>

\* the EventSource fails: it yields the error, and then connects again
\* (its retry policy) or closes
SseError ==
    /\ es.state \in {"connecting", "open"}
    /\ Len(es.events) < MaxEvents
    /\ \E err \in EsErrors :
          \/ err # "InvalidStatusCode" /\ Yield(EsErr(err), "connecting")
          \/ Yield(EsErr(err), "closed")
    /\ UNCHANGED <<hashVars, chainVars, txVars, bundleVars, opVars, rpcVars, eventVars,
                   netVars, restVars, exampleVars>>

\* the closed EventSource ends its stream, and with it the filter_map
SseEnd ==
    /\ es.state = "closed"
    /\ es' = [es EXCEPT !.state = "ended"]
    /\ UNCHANGED <<hashVars, chainVars, txVars, bundleVars, opVars, rpcVars, items,
                   eventVars, netVars, restVars, exampleVars>>

NextSse == SseOpen \/ SseMessage \/ SseError \/ SseEnd

SpecSse == InitSse /\ [][NextSse]_vars

----------------------------------------------------------------------------
(* MevShareNetwork::try_from and MevShareClient::new_with_chain_id          *)

\* U256: four 64-bit limbs, the least significant first
U256(l0, l1, l2, l3) == <<l0, l1, l2, l3>>

\* the limbs of the chain ids tried
Limbs == {0, 1, 5, 6}
ChainIds == {U256(l0, l1, l2, l3) : l0 \in Limbs, l1 \in Limbs, l2 \in Limbs, l3 \in Limbs}

MAINNET == [chain |-> "Mainnet",
            stream_url |-> "https://mev-share.flashbots.net",
            api_url |-> "https://relay.flashbots.net"]

GOERLI == [chain |-> "Goerli",
           stream_url |-> "https://mev-share-goerli.flashbots.net",
           api_url |-> "https://relay-goerli.flashbots.net"]

UnsupportedNetwork(chain) == [kind |-> "UnsupportedNetwork", chain |-> chain]
\* the panic of U256::as_u64: "Integer overflow when casting to u64"
AsU64Overflow == [kind |-> "Panic"]

\* U256::as_u64: the lowest limb of a value that fits a word; None is the
\* panic
AsU64(x) == IF x[2] = 0 /\ x[3] = 0 /\ x[4] = 0 THEN Some(x[1]) ELSE None

\* MevShareNetwork::try_from(chain)
TryFromU256(chain) ==
    IF AsU64(chain) = None THEN AsU64Overflow
    ELSE CASE Unwrap(AsU64(chain)) = 1 -> [kind |-> "Ok", network |-> MAINNET]
           [] Unwrap(AsU64(chain)) = 5 -> [kind |-> "Ok", network |-> GOERLI]
           [] OTHER -> UnsupportedNetwork(chain)

\* MevShareClient::new_with_chain_id: the network, the rest client on
\* {stream_url}/api/v1 and the rpc client on api_url
NewWithChainId(chain) ==
    LET network == TryFromU256(chain)
    IN IF network.kind # "Ok" THEN network
       ELSE [kind |-> "Ok",
             network |-> network.network,
             rest |-> <<network.network.stream_url, "/api/v1">>,
             rpc |-> network.network.api_url]

InitNet ==
    /\ HashesIdle
    /\ ChainIdle
    /\ TxIdle
    /\ BundleIdle
    /\ OpIdle
    /\ RpcIdle
    /\ SseIdle
    /\ EventIdle
    /\ RestIdle
    /\ ExampleIdle
    /\ chain_id \in {Some(c) : c \in ChainIds}
    /\ client = None

\* MevShareClient::new_with_chain_id(auth_wallet, provider, chain_id)
CallNewWithChainId ==
    /\ client = None
    /\ client' = Some(NewWithChainId(Unwrap(chain_id)))
    /\ UNCHANGED <<hashVars, chainVars, txVars, bundleVars, opVars, rpcVars, sseVars, eventVars, chain_id,
                   restVars, exampleVars>>

NextNet == CallNewWithChainId

SpecNet == InitNet /\ [][NextNet]_vars

----------------------------------------------------------------------------
(* MevShareClient::send_bundle and MevShareClient::simulate_bundle         *)
(* (client.rs), with Waiter::wait_for_tx (helpers/provider.rs)             *)

\* Privacy of SendBundleParams
Privacy(hints, builders) == [hints |-> hints, builders |-> builders]

\* the privacy settings of the requests: none, or hints to share
Privacies == {None, Some(Privacy(Some({"calldata", "logs"}), None))}

\* SendBundleParams with its privacy field
WithPrivacy(params, privacy) ==
    [body |-> params.body, inclusion |-> params.inclusion, privacy |-> privacy]

\* SimulateBundleParams: the field simulate_bundle sets
SimulateBundleParams(parent_block) == [parent_block |-> parent_block]

\* a JSON-RPC request handed to MevShareRpcClient::post
Request(method, params) == [method |-> method, params |-> params]

\* Ok of a facade operation
Returned(value) == [kind |-> "Ok", value |-> value]
\* Error::Rpc: post() failed, or the relay answered with an error
RpcFailure == [kind |-> "Rpc"]
\* the panic of Option::unwrap on None
UnwrapOnNone == [kind |-> "Panic", at |-> "unwrap"]

\* the raw signed bytes of the transaction with the given hash
RawOf(hash) == CHOOSE raw \in 0..(HashSpace - 1) : Keccak256(raw) = hash

\* ethers Transaction: block_number is None while the transaction is pending
ProviderTransaction(hash, block_number) ==
    [hash |-> hash, block_number |-> block_number, raw |-> RawOf(hash)]

\* Transaction::rlp
Rlp(tx) == tx.raw

\* provider.get_transaction(hash) when the query is served: the transaction
\* of a block, a pending transaction of the pool, or nothing
GetTransaction(hash) ==
    IF IsSome(receipts[hash])
    THEN Some(ProviderTransaction(hash, Some(Unwrap(receipts[hash]).block_number)))
    ELSE IF hash \in mempool
         THEN Some(ProviderTransaction(hash, None))
         ELSE None

\* wait_for_tx! with get_transaction, the poll before the subscription:
\* tx.block_number.unwrap() of the transaction found
WaitForTxFirstPollOfTransaction(hash, max_block, tx) ==
    IF tx = None THEN None
    ELSE IF Unwrap(tx).block_number = None
         THEN Some(UnwrapOnNone)
         ELSE Some(Ok(Unwrap(tx), Unwrap(Unwrap(tx).block_number)))

RECURSIVE HashRefs(_)
\* the hashes a body gives by reference (Body::Tx), over all levels
HashRefs(b) ==
    IF b = <<>> THEN {}
    ELSE LET e == Head(b)
         IN (CASE e.kind = "Tx" -> {e.hash}
               [] e.kind = "Signed" -> {}
               [] e.kind = "Bundle" -> HashRefs(e.body)) \cup HashRefs(Tail(b))

\* a send_bundle that drops the privacy settings of a body with a hash
SendBundleRequestPrivacyDropped(params) ==
    Request("mev_sendBundle",
            <<[params EXCEPT !.privacy =
                  IF HashRefs(params.body) # {} THEN None ELSE @]>>)

\* send_bundle: the request posted
SendBundleRequest(params) == Request("mev_sendBundle", <<params>>)

\* simulate_bundle: the request posted
SimBundleRequest(params, sim_options) ==
    Request("mev_simBundle", <<params, sim_options>>)

\* simulate_bundle, after wait_for_tx has returned (tx, block_number): the
\* first element becomes the signed transaction and parent_block defaults to
\* the block before
SimulateAfterWait(params, sim_options, tx, block_number) ==
    SimBundleRequest(
        [params EXCEPT !.body[1] = Signed(Rlp(tx))],
        [sim_options EXCEPT !.parent_block =
            IF IsSome(@) THEN @ ELSE Some(block_number - 1)])

\* wait_for_tx returns waited: simulate_bundle posts after a success and
\* returns the error otherwise (`?`)
OpWaitReturn(o, waited) ==
    IF waited.kind = "Ok"
    THEN [o EXCEPT !.pc = "posted", !.waited = Some(waited),
                   !.posted = Some(SimulateAfterWait(o.params, o.sim_options,
                                                     waited.item, waited.block))]
    ELSE [o EXCEPT !.pc = "done", !.waited = Some(waited),
                   !.result = Some(waited)]

\* the requests handed to send_bundle and simulate_bundle
OpRequests ==
    {SendBundleParams(b, Inclusion(block, None)) :
        b \in BundleBodies, block \in {1, 2}}

\* a call of a facade operation, before its first step
NewOp(name, params, sim_options) ==
    [name |-> name, params |-> params, sim_options |-> sim_options,
     pc |-> "start", max_block |-> 0, sub_at |-> 0, seen |-> 0,
     polls |-> 0, last |-> None, waited |-> None,
     posted |-> None, response |-> None, result |-> None]

\* the hashes the relay may answer a submission with
RelayHashes == {BundleHash, PendingTxHash}

\* what post() may return to an operation: Error::Rpc, or the deserialized
\* result of the relay
PostResults(name) ==
    {RpcFailure} \cup
    {Returned(v) : v \in
        CASE name = "send_bundle" -> {[bundle_hash |-> h] : h \in RelayHashes}
          [] name = "send_private_transaction" -> RelayHashes
          [] name = "simulate_bundle" -> {"SimulateBundleResponse"}}

\* an operation that makes its handle whatever post() returned
OpReturnHandleAlways(name, params, response) ==
    CASE name = "send_bundle" -> Returned(PendingBundle(BundleHash, params))
      [] name = "send_private_transaction" ->
            Returned(SendPrivateTransaction(params, PendingTxHash))
      [] name = "simulate_bundle" -> response

\* what the operation returns once post() has returned: the error (`?`),
\* or the handle made of the relay's hash and the submitted parameters
OpReturn(name, params, response) ==
    IF response.kind # "Ok" THEN response
    ELSE CASE name = "send_bundle" ->
                Returned(PendingBundle(response.value.bundle_hash, params))
           [] name = "send_private_transaction" ->
                Returned(SendPrivateTransaction(params, response.value))
           [] name = "simulate_bundle" -> response

InitOp ==
    /\ HashesIdle
    /\ TxIdle
    /\ BundleIdle
    /\ RpcIdle
    /\ SseIdle
    /\ EventIdle
    /\ NetIdle
    /\ RestIdle
    /\ ExampleIdle
    /\ height = 0
    /\ mempool = {}
    /\ \/ \E request \in OpRequests, privacy \in Privacies,
             call \in {<<"send_bundle", None>>, <<"simulate_bundle", None>>,
                       <<"simulate_bundle", Some(1)>>} :
             /\ receipts = [h \in HashRefs(request.body) |-> None]
             /\ op = NewOp(call[1], WithPrivacy(request, privacy),
                           SimulateBundleParams(call[2]))
       \/ \E max_block_number \in {None, Some(2)} :
             /\ receipts = <<>>
             /\ op = NewOp("send_private_transaction",
                           SendTransactionParams(max_block_number),
                           SimulateBundleParams(None))

\* send_bundle: the parameters are posted as they are
SendBundle ==
    /\ op.name = "send_bundle"
    /\ op.pc = "start"
    /\ op' = [op EXCEPT !.pc = "posted",
                        !.posted = Some(SendBundleRequest(op.params))]
    /\ UNCHANGED <<hashVars, chainVars, txVars, bundleVars, rpcVars, sseVars,
                   eventVars, netVars, restVars, exampleVars, mempool>>

\* send_private_transaction: the parameters are posted
SendPrivateTransactionPost ==
    /\ op.name = "send_private_transaction"
    /\ op.pc = "start"
    /\ op' = [op EXCEPT !.pc = "posted",
                        !.posted = Some(Request("eth_sendPrivateTransaction",
                                                <<op.params>>))]
    /\ UNCHANGED <<hashVars, chainVars, txVars, bundleVars, rpcVars, sseVars,
                   eventVars, netVars, restVars, exampleVars, mempool>>

\* simulate_bundle: a hash as the first element of the body is waited for,
\* up to the target block plus TX_WAIT_MAX_BLOCKS; any other body is posted
SimulateBundle ==
    /\ op.name = "simulate_bundle"
    /\ op.pc = "start"
    /\ op' = IF op.params.body # <<>> /\ op.params.body[1].kind = "Tx"
             THEN [op EXCEPT !.pc = "first_poll",
                             !.max_block = op.params.inclusion.block + TX_WAIT_MAX_BLOCKS]
             ELSE [op EXCEPT !.pc = "posted",
                             !.posted = Some(SimBundleRequest(op.params, op.sim_options))]
    /\ UNCHANGED <<hashVars, chainVars, txVars, bundleVars, rpcVars, sseVars,
                   eventVars, netVars, restVars, exampleVars, mempool>>

\* wait_for_tx: the get_transaction query before the subscription
OpFirstPoll ==
    /\ op.pc = "first_poll"
    /\ \/ LET hash == op.params.body[1].hash
              tx == GetTransaction(hash)
              r == WaitForTxFirstPollOfTransaction(hash, op.max_block, tx)
              o == [op EXCEPT !.polls = 1, !.last = tx]
          IN op' = IF IsSome(r) THEN OpWaitReturn(o, Unwrap(r))
                   ELSE [o EXCEPT !.pc = "subscribe"]
       \/ op' = OpWaitReturn(op, ProviderError)
    /\ UNCHANGED <<hashVars, chainVars, txVars, bundleVars, rpcVars, sseVars,
                   eventVars, netVars, restVars, exampleVars, mempool>>

\* wait_for_tx: subscribe_blocks()
OpSubscribe ==
    /\ op.pc = "subscribe"
    /\ \/ op' = [op EXCEPT !.pc = "loop", !.sub_at = height, !.seen = height]
       \/ op' = OpWaitReturn(op, ProviderError)
    /\ UNCHANGED <<hashVars, chainVars, txVars, bundleVars, rpcVars, sseVars,
                   eventVars, netVars, restVars, exampleVars, mempool>>

\* wait_for_tx: the stream delivers the next block
OpNextBlock ==
    /\ op.pc = "loop"
    /\ op.seen < height
    /\ LET block_number == op.seen + 1
           hash == op.params.body[1].hash
       IN \/ LET tx == GetTransaction(hash)
                 r == WaitForTxOnBlock(hash, op.max_block, block_number, tx)
                 o == [op EXCEPT !.seen = block_number, !.polls = @ + 1, !.last = tx]
             IN op' = IF IsSome(r) THEN OpWaitReturn(o, Unwrap(r)) ELSE o
          \/ op' = OpWaitReturn([op EXCEPT !.seen = block_number], ProviderError)
    /\ UNCHANGED <<hashVars, chainVars, txVars, bundleVars, rpcVars, sseVars,
                   eventVars, netVars, restVars, exampleVars, mempool>>

\* wait_for_tx: the stream ends, the statement after the loop is
\* unreachable!()
OpStreamEnd ==
    /\ op.pc = "loop"
    /\ op' = OpWaitReturn(op, Unreachable)
    /\ UNCHANGED <<hashVars, chainVars, txVars, bundleVars, rpcVars, sseVars,
                   eventVars, netVars, restVars, exampleVars, mempool>>

\* post() returns: the relay's answer, or Error::Rpc
OpRespond ==
    /\ op.pc = "posted"
    /\ \E response \in PostResults(op.name) :
          op' = [op EXCEPT !.pc = "done", !.response = Some(response),
                           !.result = Some(OpReturn(op.name, op.params, response))]
    /\ UNCHANGED <<hashVars, chainVars, txVars, bundleVars, rpcVars, sseVars,
                   eventVars, netVars, restVars, exampleVars, mempool>>

\* a transaction that has not landed reaches the pool of the provider's node
OpBroadcast ==
    /\ \E h \in DOMAIN receipts :
          /\ receipts[h] = None
          /\ h \notin mempool
          /\ mempool' = mempool \cup {h}
    /\ UNCHANGED <<hashVars, chainVars, txVars, bundleVars, rpcVars, sseVars,
                   eventVars, netVars, restVars, exampleVars, op>>

OpMineBlock ==
    MineBlock /\ UNCHANGED <<hashVars, txVars, bundleVars, clientVars>>

NextOp ==
    \/ SendBundle
    \/ SendPrivateTransactionPost
    \/ SimulateBundle
    \/ OpFirstPoll
    \/ OpSubscribe
    \/ OpNextBlock
    \/ OpStreamEnd
    \/ OpRespond
    \/ OpBroadcast
    \/ OpMineBlock

SpecOp == InitOp /\ [][NextOp]_vars

----------------------------------------------------------------------------
(* RestClient (api/rest_client.rs) behind get_event_history_info and       *)
(* get_event_history (client.rs)                                           *)

\* RestError and the result of get()
RestOk(value) == [kind |-> "Ok", value |-> value]
RestQueryDeserialization == [kind |-> "QueryDeserialization"]
RestNetwork == [kind |-> "Network"]
RestJson(text) == [kind |-> "Json", variant |-> "Deserialization", text |-> text]

\* GetEventHistoryParams
GetEventHistoryParams(block_start, block_end, timestamp_start, timestamp_end, limit, offset) ==
    [block_start |-> block_start, block_end |-> block_end,
     timestamp_start |-> timestamp_start, timestamp_end |-> timestamp_end,
     limit |-> limit, offset |-> offset]

\* the query parameters of the calls
HistoryParams ==
    {GetEventHistoryParams(None, None, None, None, None, None),
     GetEventHistoryParams(Some(1), None, None, None, Some(2), None),
     GetEventHistoryParams(None, Some(3), Some(4), None, None, Some(1))}

\* serde_qs::to_string of the params: the fields that are not None, in the
\* order of the struct, under their camelCase names
SerdeQsToString(params) ==
    LET pairs == << <<"blockStart", params.block_start>>,
                    <<"blockEnd", params.block_end>>,
                    <<"timestampStart", params.timestamp_start>>,
                    <<"timestampEnd", params.timestamp_end>>,
                    <<"limit", params.limit>>,
                    <<"offset", params.offset>> >>
        present == SelectSeq(pairs, LAMBDA p : IsSome(p[2]))
    IN [i \in 1..Len(present) |-> <<present[i][1], Unwrap(present[i][2])>>]

\* format!("{base_url}/{path}?{params}")
RestUrl(path, query) == [base_url |-> "base_url", path |-> path, query |-> query]

\* the HTTP statuses of the responses
StatusCodes == {200, 204, 304, 404, 500}

\* a response that is never turned into an error
ErrorForStatusNever(status) == FALSE

\* Response::error_for_status: an error for a client error or a server error
ErrorForStatus(status) == status >= 400 /\ status <= 599

\* the bodies of the responses
InfoText ==
    JObj([minBlock |-> JNum(1), maxBlock |-> JNum(2), minTimestamp |-> JNum(3),
          maxTimestamp |-> JNum(4), count |-> JNum(5), maxLimit |-> JNum(6)])
HistoryText ==
    JArr(<<JObj([block |-> JNum(1), timestamp |-> JNum(3),
                 hint |-> JObj([hash |-> JStr("0x01")])])>>)
RestTexts == {InfoText, HistoryText, JArr(<<>>), NotJson}

\* serde_json::from_str::<EventHistoryInfo>
IsEventHistoryInfo(text) ==
    /\ text.t = "object"
    /\ {"minBlock", "maxBlock", "minTimestamp", "maxTimestamp", "count", "maxLimit"}
           \subseteq DOMAIN text.f
    /\ \A k \in {"minBlock", "maxBlock", "minTimestamp", "maxTimestamp", "count",
                 "maxLimit"} : text.f[k].t = "number"

\* serde_json::from_str::<Vec<EventHistory>>
IsEventHistoryList(text) ==
    /\ text.t = "array"
    /\ \A i \in 1..Len(text.a) :
          /\ text.a[i].t = "object"
          /\ {"block", "timestamp", "hint"} \subseteq DOMAIN text.a[i].f
          /\ text.a[i].f["block"].t = "number"
          /\ text.a[i].f["timestamp"].t = "number"
          /\ text.a[i].f["hint"].t = "object"
          /\ "hash" \in DOMAIN text.a[i].f["hint"].f

\* serde_json::from_str(&response) into the type the path answers with
RestFromStr(path, text) ==
    IF (path = "history/info" /\ IsEventHistoryInfo(text))
          \/ (path = "history" /\ IsEventHistoryList(text))
    THEN RestOk([parsed |-> text])
    ELSE RestJson(text)

\* a GET that has not started
NewGet(path, params) ==
    [path |-> path, params |-> params, pc |-> "start", url |-> None,
     status |-> None, response |-> None, parsed |-> FALSE, result |-> None]

GetReturn(g, r) == [g EXCEPT !.pc = "done", !.result = Some(r)]

InitRest ==
    /\ HashesIdle
    /\ ChainIdle
    /\ TxIdle
    /\ BundleIdle
    /\ RpcIdle
    /\ SseIdle
    /\ EventIdle
    /\ NetIdle
    /\ OpIdle
    /\ ExampleIdle
    /\ \/ get_call = NewGet("history/info", None)
       \/ \E params \in HistoryParams : get_call = NewGet("history", Some(params))

\* get: the query string, serde_qs::to_string(&params)?
RestQuery ==
    /\ get_call.pc = "start"
    /\ \/ get_call' = [get_call EXCEPT
              !.pc = "send",
              !.url = Some(RestUrl(get_call.path,
                                   IF get_call.params = None THEN <<>>
                                   ELSE SerdeQsToString(Unwrap(get_call.params))))]
       \/ /\ get_call.params # None
          /\ get_call' = GetReturn(get_call, RestQueryDeserialization)
    /\ UNCHANGED <<hashVars, chainVars, txVars, bundleVars, opVars, rpcVars, sseVars,
                   eventVars, netVars, exampleVars>>

\* get: client.get(url).send().await?
RestSend ==
    /\ get_call.pc = "send"
    /\ \/ \E status \in StatusCodes, text \in RestTexts :
             get_call' = [get_call EXCEPT !.pc = "status", !.status = Some(status),
                                          !.response = Some(text)]
       \/ get_call' = GetReturn(get_call, RestNetwork)
    /\ UNCHANGED <<hashVars, chainVars, txVars, bundleVars, opVars, rpcVars, sseVars,
                   eventVars, netVars, exampleVars>>

\* get: .error_for_status()?.text().await?
RestText ==
    /\ get_call.pc = "status"
    /\ \/ get_call' = IF ErrorForStatus(Unwrap(get_call.status))
                      THEN GetReturn(get_call, RestNetwork)
                      ELSE [get_call EXCEPT !.pc = "parse"]
       \/ get_call' = GetReturn(get_call, RestNetwork)
    /\ UNCHANGED <<hashVars, chainVars, txVars, bundleVars, opVars, rpcVars, sseVars,
                   eventVars, netVars, exampleVars>>

\* get: serde_json::from_str(&response)
RestParse ==
    /\ get_call.pc = "parse"
    /\ get_call' = GetReturn([get_call EXCEPT !.parsed = TRUE],
                             RestFromStr(get_call.path, Unwrap(get_call.response)))
    /\ UNCHANGED <<hashVars, chainVars, txVars, bundleVars, opVars, rpcVars, sseVars,
                   eventVars, netVars, exampleVars>>

NextRest == RestQuery \/ RestSend \/ RestText \/ RestParse

SpecRest == InitRest /\ [][NextRest]_vars

----------------------------------------------------------------------------
(* The backrun example (examples/send_backrun_bundle.rs), fn backrun       *)

NUM_TARGET_BLOCKS == 3

\* the signed backrun transaction and its hash, keccak256(&backrun_tx)
BackrunTx == Signed(1)
BackrunTxHash == Keccak256(BackrunTx.tx)

\* the results of backrun()
BackrunOk(what) == [kind |-> "Ok", what |-> what]
BackrunTxDropped(n) == [kind |-> "BackrunTxDropped", blocks |-> n]
BackrunTxReverted(receipt) == [kind |-> "BackrunTxReverted", receipt |-> receipt]

\* backrun_request: the target by hash, then the signed backrun transaction,
\* for the blocks start_block + 1 to start_block + 1 + NUM_TARGET_BLOCKS
BackrunRequest(hash, start_block) ==
    SendBundleParams(<<Tx(hash), BackrunTx>>,
                     Inclusion(start_block + 1,
                               Some(start_block + 1 + NUM_TARGET_BLOCKS)))

\* the test at the head of the inclusion loop
BackrunGivesUp(start_block, block_number) ==
    block_number > start_block + NUM_TARGET_BLOCKS

\* a backrun() call that has not started
NewBackrun(pending_tx) ==
    [pending_tx |-> pending_tx, pc |-> "start", start_block |-> None,
     request |-> None, sent |-> FALSE, seen |-> 0, polls |-> 0, result |-> None]

BackrunReturn(b, r) == [b EXCEPT !.pc = "done", !.result = Some(r)]

InitBackrun ==
    /\ HashesIdle
    /\ TxIdle
    /\ BundleIdle
    /\ RpcIdle
    /\ SseIdle
    /\ EventIdle
    /\ NetIdle
    /\ OpIdle
    /\ RestIdle
    /\ height = 0
    /\ receipts = [h \in {BackrunTxHash} |-> None]
    /\ target_txs \in {{PendingTxHash}, {}}
    /\ backrun_call = NewBackrun(PendingTransaction(PendingTxHash, None))

\* `if !target_txs.lock()?.contains(&pending_tx.hash) { return Ok(()) }`
BackrunFilter ==
    /\ backrun_call.pc = "start"
    /\ backrun_call' =
          IF backrun_call.pending_tx.hash \in target_txs
          THEN [backrun_call EXCEPT !.pc = "prepare"]
          ELSE BackrunReturn(backrun_call, BackrunOk("ignored"))
    /\ UNCHANGED <<hashVars, chainVars, txVars, bundleVars, opVars, rpcVars, sseVars,
                   eventVars, netVars, restVars, target_txs>>

\* try_join!(get_block_number, ..)? and the request built from start_block
BackrunPrepare ==
    /\ backrun_call.pc = "prepare"
    /\ \/ backrun_call' =
             [backrun_call EXCEPT
                 !.pc = "send",
                 !.start_block = Some(height),
                 !.request = Some(BackrunRequest(backrun_call.pending_tx.hash, height))]
       \/ backrun_call' = BackrunReturn(backrun_call, ProviderError)
    /\ UNCHANGED <<hashVars, chainVars, txVars, bundleVars, opVars, rpcVars, sseVars,
                   eventVars, netVars, restVars, target_txs>>

\* client.send_bundle(backrun_request.clone()).await, the result of which is
\* only printed
BackrunSendBundle ==
    /\ backrun_call.pc = "send"
    /\ \E accepted \in BOOLEAN :
          backrun_call' = [backrun_call EXCEPT !.pc = "subscribe", !.sent = accepted]
    /\ UNCHANGED <<hashVars, chainVars, txVars, bundleVars, opVars, rpcVars, sseVars,
                   eventVars, netVars, restVars, target_txs>>

\* provider.subscribe_blocks().await?
BackrunSubscribe ==
    /\ backrun_call.pc = "subscribe"
    /\ \/ backrun_call' = [backrun_call EXCEPT !.pc = "loop", !.seen = height]
       \/ backrun_call' = BackrunReturn(backrun_call, ProviderError)
    /\ UNCHANGED <<hashVars, chainVars, txVars, bundleVars, opVars, rpcVars, sseVars,
                   eventVars, netVars, restVars, target_txs>>

\* one iteration of the inclusion loop, for the next block of the stream
BackrunNextBlock ==
    /\ backrun_call.pc = "loop"
    /\ backrun_call.seen < height
    /\ LET block_number == backrun_call.seen + 1
           b == [backrun_call EXCEPT !.seen = block_number]
           receipt == GetTransactionReceipt(BackrunTxHash)
       IN IF BackrunGivesUp(Unwrap(backrun_call.start_block), block_number)
          THEN /\ target_txs' = target_txs \ {backrun_call.pending_tx.hash}
               /\ backrun_call' = BackrunReturn(b, BackrunTxDropped(NUM_TARGET_BLOCKS))
          ELSE /\ target_txs' = target_txs
               /\ \/ backrun_call' = BackrunReturn(b, ProviderError)
                  \/ backrun_call' =
                        IF receipt = None
                        THEN [b EXCEPT !.polls = @ + 1]
                        ELSE IF Unwrap(receipt).status # 1
                             THEN BackrunReturn([b EXCEPT !.polls = @ + 1],
                                                BackrunTxReverted(Unwrap(receipt)))
                             ELSE [b EXCEPT !.polls = @ + 1, !.pc = "simulate"]
    /\ UNCHANGED <<hashVars, chainVars, txVars, bundleVars, opVars, rpcVars, sseVars,
                   eventVars, netVars, restVars>>

\* client.simulate_bundle(..).await?, then return Ok(())
BackrunSimulate ==
    /\ backrun_call.pc = "simulate"
    /\ \/ backrun_call' = BackrunReturn(backrun_call, BackrunOk("included"))
       \/ backrun_call' = BackrunReturn(backrun_call, RpcFailure)
    /\ UNCHANGED <<hashVars, chainVars, txVars, bundleVars, opVars, rpcVars, sseVars,
                   eventVars, netVars, restVars, target_txs>>

\* the block stream ends: the Ok(()) after the loop
BackrunStreamEnd ==
    /\ backrun_call.pc = "loop"
    /\ backrun_call' = BackrunReturn(backrun_call, BackrunOk("stream ended"))
    /\ UNCHANGED <<hashVars, chainVars, txVars, bundleVars, opVars, rpcVars, sseVars,
                   eventVars, netVars, restVars, target_txs>>

\* a new block: the backrun transaction lands only as part of the bundle the
\* relay accepted, in a block from inclusion.block to inclusion.max_block
BackrunMineBlock ==
    /\ height < MaxHeight
    /\ height' = height + 1
    /\ \/ receipts' = receipts
       \/ /\ backrun_call.sent
          /\ receipts[BackrunTxHash] = None
          /\ height + 1 >= Unwrap(backrun_call.request).inclusion.block
          /\ height + 1 <= Unwrap(Unwrap(backrun_call.request).inclusion.max_block)
          /\ \E status \in Statuses :
                receipts' = [receipts EXCEPT ![BackrunTxHash] =
                                Some(Receipt(BackrunTxHash, height + 1, status))]
    /\ UNCHANGED <<hashVars, txVars, bundleVars, clientVars>>

NextBackrun ==
    \/ BackrunFilter
    \/ BackrunPrepare
    \/ BackrunSendBundle
    \/ BackrunSubscribe
    \/ BackrunNextBlock
    \/ BackrunSimulate
    \/ BackrunStreamEnd
    \/ BackrunMineBlock

SpecBackrun == InitBackrun /\ [][NextBackrun]_vars

----------------------------------------------------------------------------
(* The hash-flattening iterator *)

\* C1: hashes() yields the leaves' hashes in depth-first, left-to-right
\* pre-order (a reference yields its hash, a signed element the keccak hash
\* of its bytes, a nested bundle all its leaves before its later siblings):
\* what has been yielded is always a prefix of the pre-order flattening, a
\* finished traversal has yielded all of it, and the body of test_hashes
\* yields [hash(a), hash(b), h, hash(c), hash(d), h2, hash(e)].
C1_HashesPreOrder ==
    /\ IsPrefix(yielded, PreOrder(body))
    /\ finished => yielded = PreOrder(body)
    /\ (finished /\ body = TestBody) =>
          yielded = <<Keccak256(0), Keccak256(1), Keccak256(2), Keccak256(3),
                      Keccak256(4), Keccak256(5), Keccak256(6)>>

C1_Witness ==
    /\ finished
    /\ body = TestBody
    /\ Len(yielded) = 7
    /\ Cardinality({yielded[i] : i \in 1..7}) = 7

\* C2: a finished traversal has yielded one hash per signed/hash-reference
\* leaf over all levels (nested bundles, empty ones included, add nothing
\* but their leaves), each hash as often as leaves carry it, and a later
\* traversal of the same body yields the same sequence as the earlier ones.
C2_HashesCount ==
    /\ Len(yielded) <= LeafOccurrences(body, AllHashes)
    /\ finished =>
        /\ Len(yielded) = LeafOccurrences(body, AllHashes)
        /\ \A h \in AllHashes : Occurrences(yielded, {h}) = LeafOccurrences(body, {h})
        /\ \A i \in 1..Len(collected) : collected[i] = yielded

C2_Witness ==
    /\ finished
    /\ collected # <<>>
    /\ \E i, j \in 1..Len(yielded) : i < j /\ yielded[i] = yielded[j]
    /\ \E k \in 1..Len(body) : body[k] = Bundle(<<>>)
    /\ \E k \in 1..Len(body) : body[k].kind = "Bundle" /\ body[k].body # <<>>

----------------------------------------------------------------------------
(* The single-transaction wait *)

\* C3: a receipt reported on the very first poll is returned at once, with
\* the block number of the receipt: the wait has made that one query, has
\* never subscribed to blocks, and does so whatever max_block is.
C3_FirstPollReturns ==
    (txw.polls >= 1 /\ IsSome(txw.first)) =>
        /\ txw.pc = "done"
        /\ txw.waited = Some(Ok(Unwrap(txw.first), Unwrap(txw.first).block_number))
        /\ txw.polls = 1
        /\ txw.subs = 0

C3_Witness ==
    /\ txw.pc = "done"
    /\ IsSome(txw.first)
    /\ IsSome(ptx.max_block)
    /\ Unwrap(txw.first).block_number > txw.max_block
    /\ Unwrap(txw.waited).kind = "Ok"

\* C4: the wait fails with TransactionTimeout(hash, b) only for the observed
\* block b that is the first one numbered >= max_block, and only after the
\* receipt query made for b found nothing; it never goes on waiting past
\* such a block; a receipt found by the query made for a block is
\* returned whatever the number of that block; and a wait that ends without
\* a receipt, a provider failure or the stream ending ends in the timeout.
C4_TimeoutAtDeadline ==
    /\ (IsSome(txw.waited) /\ Unwrap(txw.waited).kind = "TransactionTimeout") =>
          /\ Unwrap(txw.waited) = TransactionTimeout(ptx.hash, txw.seen)
          /\ txw.seen >= txw.max_block
          /\ \A b \in (txw.sub_at + 1)..(txw.seen - 1) : b < txw.max_block
          /\ txw.last = None
    /\ (txw.pc = "loop" /\ txw.seen > txw.sub_at) => txw.seen < txw.max_block
    /\ (txw.polls >= 2 /\ IsSome(txw.last)) =>
          txw.waited = Some(Ok(Unwrap(txw.last), txw.seen))
    /\ (IsSome(txw.waited) /\ txw.last = None
          /\ Unwrap(txw.waited).kind \notin {"Provider", "Panic"}) =>
          Unwrap(txw.waited).kind = "TransactionTimeout"

C4_Witness ==
    /\ IsSome(txw.waited)
    /\ Unwrap(txw.waited).kind = "TransactionTimeout"
    /\ txw.seen > txw.sub_at + 1
    /\ receipts[ptx.hash] = None

\* C5: inclusion() never returns success with a receipt whose status is not
\* the success code: a receipt with another status, found on the first poll
\* or for a later block, makes the result TransactionRevert with that receipt.
C5_RevertNotSuccess ==
    /\ (IsSome(txw.result) /\ Unwrap(txw.result).kind = "Ok") =>
          Unwrap(txw.result).item.status = 1
    /\ (IsSome(txw.last) /\ Unwrap(txw.last).status # 1) =>
          txw.result = Some(TransactionRevert(Unwrap(txw.last)))

C5_Witness ==
    /\ IsSome(txw.result)
    /\ Unwrap(txw.result).kind = "TransactionRevert"
    /\ Unwrap(txw.result).receipt.status = 0
    /\ txw.polls >= 2

----------------------------------------------------------------------------
(* The bundle wait *)

\* the latest check has had all its queries answered
Polled == bw.polls >= 1 /\ bw.answered = 1..Len(bw.txs)
\* the receipts the latest check found
Found == Flatten(bw.answers)
\* the flattened hashes that have a receipt on chain
Landed == {i \in 1..Len(bw.txs) : IsSome(receipts[bw.txs[i]])}
BundleResultIs(kind) == IsSome(bw.result) /\ Unwrap(bw.result).kind = kind

\* C6: a successful bundle wait returns one receipt per flattened hash of
\* the bundle, in flattening order, at least one, and none of them with a
\* status other than success.
C6_SuccessCoversEveryHash ==
    BundleResultIs("Ok") =>
        LET rs == Unwrap(bw.result).item
        IN /\ bw.txs = PreOrder(pb.request.body)
           /\ Len(rs) = Len(bw.txs)
           /\ Len(rs) > 0
           /\ \A i \in 1..Len(rs) :
                 rs[i].transaction_hash = bw.txs[i] /\ rs[i].status = 1

C6_Witness ==
    /\ BundleResultIs("Ok")
    /\ Len(Unwrap(bw.result).item) = 3
    /\ IsSome(bw.block)

\* C7: a check that finds a receipt for every flattened hash, at least one
\* of them with a failing status, ends the wait with BundleRevert carrying
\* all the receipts, and the wait takes no further step.
C7_RevertCarriesAll ==
    (/\ Polled
     /\ Len(bw.txs) > 0
     /\ Len(Found) = Len(bw.txs)
     /\ \E i \in 1..Len(Found) : Found[i].status # 1) =>
        /\ bw.result = Some(BundleRevert(Found))
        /\ ~ENABLED BundleWaitStep

C7_Witness ==
    /\ BundleResultIs("BundleRevert")
    /\ Len(bw.txs) = 3
    /\ Len(Unwrap(bw.result).receipts) = 3
    /\ Cardinality({i \in 1..3 : Unwrap(bw.result).receipts[i].status # 1}) = 1

C10_DiscardOnlyUpToMaxBlock ==
    (BundleResultIs("BundleDiscard") /\ IsSome(bw.block)) =>
        Unwrap(bw.block) <= bw.max_block

----------------------------------------------------------------------------
(* Deadlines and provider failures of the waits *)

\* C11 as claimed: the comparison with max_block is inclusive in both waits:
\* once a wait has observed a block numbered max_block or more and the query
\* (check) made for it found no receipt, it has timed out and is not waiting
\* for a further block.
C11_InclusiveBounds ==
    /\ txw # None =>
          ((txw.pc = "loop" /\ txw.seen > txw.sub_at) => txw.seen < txw.max_block)
    /\ bw # None =>
          ((bw.pc = "loop" /\ bw.txs # <<>> /\ bw.seen > bw.sub_at) =>
              bw.seen < bw.max_block)

C13_ProviderFailureAborts ==
    /\ (txw # None /\ txw.failed) =>
          /\ txw.pc = "done"
          /\ txw.result = Some(ProviderError)
          /\ ~ENABLED TxWaitStep
    /\ (txw # None /\ txw.result = Some(ProviderError)) => txw.failed
    /\ (bw # None /\ bw.failed) =>
          /\ bw.pc = "done"
          /\ bw.result = Some(ProviderError)
          /\ ~ENABLED BundleWaitStep
    /\ (bw # None /\ bw.result = Some(ProviderError)) => bw.failed

C13_Witness ==
    /\ bw # None
    /\ bw.failed
    /\ IsSome(bw.block)
    /\ bw.answered # {}
    /\ bw.answered # 1..Len(bw.txs)
    /\ \E i \in bw.answered : IsSome(bw.answers[i])

----------------------------------------------------------------------------
(* The request ids and the results of post() *)

\* C14: whatever the interleaving of the post() calls on one client, no two
\* calls build their envelope with the same request id, every id handed out
\* is distinct from the others, and no increment is lost: the counter never
\* holds an id already handed out.
C14_UniqueRequestIds ==
    /\ \A c, d \in 1..MaxCalls :
          (c # d /\ IsSome(calls[c].id) /\ IsSome(calls[d].id)) =>
              calls[c].id # calls[d].id
    /\ \A i, j \in 1..Len(issued) : i # j => issued[i] # issued[j]
    /\ \A i \in 1..Len(issued) : request_id # issued[i]
    /\ Len(issued) = Cardinality({c \in 1..MaxCalls : IsSome(calls[c].id)})

C14_Witness ==
    /\ calls[1].pc \in {"sign", "send", "text"}
    /\ calls[2].pc \in {"sign", "send", "text"}
    /\ Unwrap(calls[2].id) < Unwrap(calls[1].id)
    /\ request_id \in 0..RequestIdModulus

\* C15 as claimed: the request ids of successive post() calls are strictly
\* increasing: each call uses an id greater than the id of every earlier
\* call.
C15_StrictlyIncreasing ==
    \A i, j \in 1..Len(issued) : i < j => issued[i] < issued[j]

\* the text is a JSON-RPC success envelope: jsonrpc, id and a result of the
\* type asked for
IsSuccessEnvelope(text) ==
    /\ text.t = "object"
    /\ {"jsonrpc", "id", "result"} \subseteq DOMAIN text.f
    /\ text.f["jsonrpc"].t = "string"
    /\ text.f["id"].t = "number"
    /\ text.f["result"].t = "object"
    /\ "bundleHash" \in DOMAIN text.f["result"].f
    /\ text.f["result"].f["bundleHash"].t = "string"

\* the text is a JSON-RPC error envelope: an error that is a message or a
\* code with a message, and jsonrpc and id, where present, of their types
IsErrorEnvelope(text) ==
    /\ text.t = "object"
    /\ "error" \in DOMAIN text.f
    /\ LET e == text.f["error"]
       IN \/ e.t = "string"
          \/ /\ e.t = "object"
             /\ {"code", "message"} \subseteq DOMAIN e.f
             /\ e.f["code"].t = "number"
             /\ e.f["message"].t = "string"
    /\ "jsonrpc" \in DOMAIN text.f => text.f["jsonrpc"].t \in {"string", "null"}
    /\ "id" \in DOMAIN text.f => text.f["id"].t \in {"number", "null"}

\* C16: a post() call that has returned has kept its failure modes apart: a
\* transport failure (of send() or of text()), and nothing else, gives
\* RpcError::Network; a response text that is a success envelope, and
\* nothing else, gives Ok with its result; a text that is an error envelope
\* (and no success envelope) gives RpcError::Response with the error the
\* server reported; any other text gives RpcError::Json, the
\* deserialization error with that text.
C16_ErrorKinds ==
    \A c \in 1..MaxCalls :
        calls[c].pc = "done" =>
            LET call == calls[c]
                r == Unwrap(call.result)
            IN /\ (call.failure = Some("transport")) <=> (r = RpcNetwork)
               /\ r.kind = "Ok" => (IsSome(call.text) /\ IsSuccessEnvelope(Unwrap(call.text)))
               /\ IsSome(call.text) =>
                     LET text == Unwrap(call.text)
                     IN IF IsSuccessEnvelope(text)
                        THEN r = RpcOk([bundle_hash |-> text.f["result"].f["bundleHash"].s])
                        ELSE IF IsErrorEnvelope(text)
                        THEN /\ r.kind = "Response"
                             /\ LET e == text.f["error"]
                                IN IF e.t = "string"
                                   THEN r.error.error = [variant |-> "Simple", message |-> e.s]
                                   ELSE r.error.error = [variant |-> "Detailed",
                                                         code |-> e.f["code"].n,
                                                         message |-> e.f["message"].s]
                        ELSE r = RpcJsonDeserialization(text)

C16_Witness ==
    /\ calls[1].pc = "done"
    /\ calls[2].pc = "done"
    /\ Unwrap(calls[1].result).kind = "Response"
    /\ HasKey(Unwrap(calls[1].text), "id")
    /\ Unwrap(calls[1].text).f["id"] = JNull
    /\ Unwrap(calls[2].result).kind = "Json"
    /\ Unwrap(calls[2].result).variant = "Deserialization"
    /\ Unwrap(calls[2].text).t = "object"

----------------------------------------------------------------------------
(* The event subscription *)

\* the events of the EventSource other than the connection-open signal
Arrived ==
    LET NotOpen(ev) == ev.kind # "Open"
    IN SelectSeq(es.events, NotOpen)

\* the message body is an event envelope: a hash, and logs and txs that,
\* where present, are null or lists of logs and of transactions
IsEventBody(data) ==
    /\ data.t = "object"
    /\ "hash" \in DOMAIN data.f
    /\ data.f["hash"].t = "string"
    /\ "logs" \in DOMAIN data.f =>
          \/ data.f["logs"].t = "null"
          \/ /\ data.f["logs"].t = "array"
             /\ \A i \in 1..Len(data.f["logs"].a) :
                   /\ data.f["logs"].a[i].t = "object"
                   /\ "address" \in DOMAIN data.f["logs"].a[i].f
    /\ "txs" \in DOMAIN data.f =>
          \/ data.f["txs"].t = "null"
          \/ /\ data.f["txs"].t = "array"
             /\ \A i \in 1..Len(data.f["txs"].a) : data.f["txs"].a[i].t = "object"

\* C17: the consumer of subscribe_bundles never receives an item for a
\* connection-open signal, and receives exactly one item for every message,
\* in the order of arrival: the event with the hash of the message when the
\* body is an event envelope, the deserialization error with the body when
\* it is not; the messages that arrive after a malformed one are delivered
\* like the others.
C17_OneItemPerMessage ==
    /\ Len(items) = Len(Arrived)
    /\ \A k \in 1..Len(Arrived) :
          Arrived[k].kind = "Message" =>
              IF IsEventBody(Arrived[k].data)
              THEN /\ items[k].kind = "Event"
                   /\ items[k].event.hash = Arrived[k].data.f["hash"].s
              ELSE items[k] = ItemJsonDeserialization(Arrived[k].data)

C17_Witness ==
    /\ Len(es.events) = 4
    /\ es.events[1].kind = "Open"
    /\ Len(items) = 3
    /\ items[1].kind = "Event"
    /\ items[2].kind = "Json"
    /\ items[2].text # NotJson
    /\ items[3].kind = "Event"
    /\ IsSome(items[3].event.txs)

\* C18 as claimed: an error of the transport is the last item of the
\* sequence: no item, event or error, follows an EventSource error item.
C18_EndsAfterTransportError ==
    \A i \in 1..Len(items) : items[i].kind = "EventSource" => i = Len(items)

\* C19: as_transaction returns a value exactly when the transaction list
\* of the event is absent or has exactly one element, and none when the
\* list has more than one element; the value carries the hash of the
\* event, the one transaction of the list (none when the list is absent)
\* and the first log of the event, if it has one.
C19_AsTransaction ==
    IsSome(classified) =>
        LET ev == Unwrap(event)
            r == Unwrap(classified)
            one == IsSome(ev.txs) /\ Len(Unwrap(ev.txs)) = 1
        IN /\ IsSome(r) <=> (ev.txs = None \/ one)
           /\ (IsSome(ev.txs) /\ Len(Unwrap(ev.txs)) > 1) => r = None
           /\ IsSome(r) =>
                 /\ Unwrap(r)[1] = ev.hash
                 /\ Unwrap(r)[2] = (IF one THEN Some(Unwrap(ev.txs)[1]) ELSE None)
                 /\ Unwrap(r)[3] = (IF IsSome(ev.logs) /\ Len(Unwrap(ev.logs)) > 0
                                    THEN Some(Unwrap(ev.logs)[1])
                                    ELSE None)

C19_Witness ==
    /\ IsSome(classified)
    /\ IsSome(Unwrap(classified))
    /\ IsSome(Unwrap(event).txs)
    /\ IsSome(Unwrap(event).logs)
    /\ Len(Unwrap(Unwrap(event).logs)) = 2
    /\ Unwrap(Unwrap(classified))[2] = Some(Transaction(Some("0xa")))
    /\ Unwrap(Unwrap(classified))[3] = Some("log1")

----------------------------------------------------------------------------
(* The construction of the client *)

\* C20 as claimed: new_with_chain_id returns a client on the mainnet URLs
\* for chain id 1, a client on the goerli URLs for chain id 5, and for every
\* other chain id the error UnsupportedNetwork with that chain id, and no
\* client.
C20_ChainIdMapping ==
    IsSome(client) =>
        LET chain == Unwrap(chain_id)
            r == Unwrap(client)
        IN IF chain = U256(1, 0, 0, 0)
           THEN /\ r.kind = "Ok"
                /\ r.network.stream_url = "https://mev-share.flashbots.net"
                /\ r.network.api_url = "https://relay.flashbots.net"
           ELSE IF chain = U256(5, 0, 0, 0)
           THEN /\ r.kind = "Ok"
                /\ r.network.stream_url = "https://mev-share-goerli.flashbots.net"
                /\ r.network.api_url = "https://relay-goerli.flashbots.net"
           ELSE r = UnsupportedNetwork(chain)

----------------------------------------------------------------------------
(* The handles returned by the submissions *)

\* C23: the handle of a private transaction carries the max_block_number of
\* the submitted parameters; inclusion() waits up to that block when it is
\* given, without reading the chain height, and otherwise up to the chain
\* height it reads once, when it starts, plus TX_WAIT_MAX_BLOCKS (25).
C23_TxDeadline ==
    /\ ptx.max_block = txw.params.max_block_number
    /\ IsSome(txw.params.max_block_number) =>
          /\ txw.height_reads = 0
          /\ txw.start = None
          /\ txw.pc # "created" =>
                txw.max_block = Unwrap(txw.params.max_block_number)
    /\ (txw.params.max_block_number = None /\ txw.pc # "created") =>
          /\ txw.height_reads = 1
          /\ IsSome(txw.start) =>
                /\ txw.max_block = Unwrap(txw.start) + TX_WAIT_MAX_BLOCKS
                /\ Unwrap(txw.start) <= height
          /\ txw.start = None => txw.result = Some(ProviderError)
    /\ txw.pc = "created" => txw.height_reads = 0

C23_Witness ==
    /\ txw.params.max_block_number = None
    /\ txw.start = Some(2)
    /\ txw.max_block = 2 + TX_WAIT_MAX_BLOCKS
    /\ IsSome(txw.result)
    /\ Unwrap(txw.result).kind = "Ok"
    /\ txw.polls >= 2

\* C24: PendingBundle::inclusion waits up to inclusion.max_block of the
\* submitted request when it is present and up to the target block
\* inclusion.block otherwise, and every check of the wait queries exactly
\* the flattened hashes of the submitted body, one query per hash, in
\* pre-order.
C24_BundleDeadlineAndHashes ==
    bw.pc # "created" =>
        /\ IsSome(pb.request.inclusion.max_block) =>
              bw.max_block = Unwrap(pb.request.inclusion.max_block)
        /\ pb.request.inclusion.max_block = None =>
              bw.max_block = pb.request.inclusion.block
        /\ bw.txs = PreOrder(pb.request.body)
        /\ bw.polls + (IF bw.pc = "polling" THEN 1 ELSE 0) >= 1 =>
              /\ DOMAIN bw.answers = 1..Len(bw.txs)
              /\ bw.answered \subseteq 1..Len(bw.txs)
              /\ \A i \in 1..Len(bw.txs) :
                    IsSome(bw.answers[i]) =>
                        /\ i \in bw.answered
                        /\ Unwrap(bw.answers[i]).transaction_hash = bw.txs[i]

C24_Witness ==
    /\ pb.request.inclusion = Inclusion(1, Some(2))
    /\ pb.request.body = <<Signed(0), Bundle(<<Tx(9), Signed(1)>>)>>
    /\ bw.max_block = 2
    /\ bw.txs = <<Keccak256(0), 9, Keccak256(1)>>
    /\ bw.polls >= 3
    /\ bw.result = Some(BundleTimeout(bw.txs, 3))

C27_RevertOverPartial ==
    (Polled /\ \E i \in 1..Len(Found) : Found[i].status # 1) =>
        bw.result = Some(BundleRevert(Found))

\* C27 amended: a check that finds a failing receipt ends the wait with
\* BundleRevert only when every flattened hash has a receipt; when some
\* flattened hash has no receipt the partial landing takes precedence and
\* the outcome is BundleDiscard with the receipts found, the failing one
\* included.
C27_RevertOnlyWhenAllLanded ==
    (Polled /\ \E i \in 1..Len(Found) : Found[i].status # 1) =>
        /\ bw.pc = "done"
        /\ Len(Found) = Len(bw.txs) => bw.result = Some(BundleRevert(Found))
        /\ Len(Found) < Len(bw.txs) => bw.result = Some(BundleDiscard(Found))

C27_Witness ==
    /\ BundleResultIs("BundleDiscard")
    /\ Len(bw.txs) = 3
    /\ Len(Unwrap(bw.result).receipts) = 2
    /\ Unwrap(bw.result).receipts[1].status = 0
    /\ Unwrap(bw.result).receipts[2].status = 1

----------------------------------------------------------------------------
(* The ends of the waits *)

\* C28: the unreachable!() after the subscription loop of a wait is never
\* reached: no wait, of a transaction or of a bundle, ends in a panic,
\* whatever the block subscription does.
C28_UnreachableNeverReached ==
    /\ (txw # None /\ IsSome(txw.result)) => Unwrap(txw.result).kind # "Panic"
    /\ (bw # None /\ IsSome(bw.result)) => Unwrap(bw.result).kind # "Panic"

\* C29: whenever the wait for a transaction returns Ok((item, b)), b is the
\* block number recorded on the returned item, on the first poll and after
\* a new-block notification alike.
C29_BlockOfInclusion ==
    (IsSome(txw.waited) /\ Unwrap(txw.waited).kind = "Ok") =>
        Unwrap(txw.waited).block = Unwrap(txw.waited).item.block_number

----------------------------------------------------------------------------
(* send_bundle and simulate_bundle *)

\* the parameters of the request posted
PostedParams == Unwrap(op.posted).params[1]

\* C21 as stated: a request whose body holds a hash reference at any level
\* together with privacy settings is never posted.
C21_MutualExclusionEnforced ==
    IsSome(op.posted) =>
        ~(HashRefs(PostedParams.body) # {} /\ IsSome(PostedParams.privacy))

\* C21 amended: the client makes no check of the mutual exclusion.
\* send_bundle posts the parameters exactly as given and never fails
\* before posting; simulate_bundle posts the privacy settings as given; the
\* only result other than success after the post is Error::Rpc, which is
\* how a rejection by the relay arrives.
C21_PostedAsGiven ==
    /\ (op.name = "send_bundle" /\ op.pc # "start") =>
          /\ op.posted = Some(Request("mev_sendBundle", <<op.params>>))
          /\ IsSome(op.result) =>
                Unwrap(op.result) \in
                    {RpcFailure} \cup
                    {Returned(PendingBundle(h, op.params)) : h \in RelayHashes}
    /\ (op.name = "simulate_bundle" /\ IsSome(op.posted)) =>
          /\ Unwrap(op.posted).method = "mev_simBundle"
          /\ PostedParams.privacy = op.params.privacy
          /\ op.waited = None => PostedParams = op.params
          /\ IsSome(op.result) => Unwrap(op.result).kind \in {"Rpc", "Ok"}

C21_Witness ==
    /\ op.name = "send_bundle"
    /\ op.pc = "done"
    /\ PostedParams.body = <<Signed(0), Bundle(<<Tx(9), Signed(1)>>)>>
    /\ IsSome(PostedParams.privacy)
    /\ op.result = Some(RpcFailure)

\* C22: no simulation request is posted while a transaction the body gives
\* by hash, at any level, has not landed.
C22_SimulatesAfterLanding ==
    (op.name = "simulate_bundle" /\ IsSome(op.posted)) =>
        \A h \in HashRefs(op.params.body) : IsSome(receipts[h])

\* C30: wait_for_tx returns success only with a transaction of a block, and
\* a transaction the provider knows only as pending makes it neither
\* return success nor panic.
C30_ResolvesOnlyIncluded ==
    IsSome(op.waited) =>
        /\ Unwrap(op.waited) # UnwrapOnNone
        /\ Unwrap(op.waited).kind = "Ok" =>
              IsSome(Unwrap(op.waited).item.block_number)

----------------------------------------------------------------------------
(* Termination of the waits *)

\* the block stream still has a block to deliver after the subscription and
\* the chain of the model reaches the block that ends the wait
TxBlocksAhead ==
    txw # None /\ txw.pc = "loop" /\ txw.sub_at < MaxHeight /\ txw.max_block <= MaxHeight
BundleBlocksAhead ==
    bw # None /\ bw.pc \in {"loop", "polling"} /\ bw.subs = 1
        /\ bw.sub_at < MaxHeight /\ bw.max_block < MaxHeight

\* C25: a wait is bounded in blocks. While blocks keep coming and no query
\* fails, a wait of a transaction or of a bundle, once under way, reaches
\* its subscription loop or ends, and from the loop it ends; it ends with
\* success, timeout, revert or discard; and it never goes on after observing
\* a block that has reached the deadline (>= max_block for a transaction,
\* > max_block for a bundle).
C25_WaitTerminates ==
    /\ [](txw # None =>
            /\ (txw.pc = "loop" /\ txw.seen > txw.sub_at) => txw.seen < txw.max_block
            /\ (txw.pc = "done" /\ ~txw.failed /\ txw.result # Some(Unreachable)) =>
                  Unwrap(txw.result).kind \in {"Ok", "TransactionTimeout", "TransactionRevert"})
    /\ [](bw # None =>
            /\ (bw.pc = "loop" /\ bw.seen > bw.sub_at) => bw.seen <= bw.max_block
            /\ (bw.pc = "done" /\ ~bw.failed /\ bw.result # Some(Unreachable)) =>
                  Unwrap(bw.result).kind \in
                      {"Ok", "BundleTimeout", "BundleRevert", "BundleDiscard"})
    /\ (txw # None /\ txw.pc # "created") ~>
          (txw # None /\ txw.pc \in {"loop", "done"})
    /\ (bw # None /\ bw.pc # "created") ~>
          (bw # None /\ bw.pc \in {"loop", "done"})
    /\ TxBlocksAhead ~> (txw # None /\ txw.pc = "done")
    /\ BundleBlocksAhead ~> (bw # None /\ bw.pc = "done")

C25_Witness ==
    /\ bw # None
    /\ bw.pc = "done"
    /\ bw.subs = 1
    /\ bw.sub_at < MaxHeight
    /\ bw.max_block < MaxHeight
    /\ bw.seen = bw.max_block + 1
    /\ bw.seen > bw.sub_at + 1
    /\ bw.result = Some(BundleTimeout(bw.txs, bw.seen))

----------------------------------------------------------------------------
(* The block of a bundle and the empty bundle *)

\* C31: whenever the bundle wait returns success with (receipts, b), every
\* returned receipt is of block b: receipts spread over different blocks are
\* never reported as a successful inclusion.
C31_OneBlockPerBundle ==
    BundleResultIs("Ok") =>
        \A i \in 1..Len(Unwrap(bw.result).item) :
            Unwrap(bw.result).item[i].block_number = Unwrap(bw.result).block

\* C32: a bundle whose flattened hash list is empty (an empty body, or only
\* empty nested bundles) never ends in success, BundleRevert or
\* BundleDiscard: every check finds it not landed, the wait goes on while
\* the observed blocks are not past max_block, and unless a provider call
\* fails or the stream ends it ends in BundleTimeout with an empty hash list
\* at the first observed block past max_block.
C32_EmptyBundleTimesOut ==
    (PreOrder(pb.request.body) = <<>> /\ bw.pc # "created") =>
        /\ bw.txs = <<>>
        /\ IsSome(bw.result) =>
              Unwrap(bw.result).kind \notin {"Ok", "BundleRevert", "BundleDiscard"}
        /\ (bw.pc = "loop" /\ bw.seen > bw.sub_at) => bw.seen <= bw.max_block
        /\ bw.pc \in {"subscribe", "loop"} => bw.polls >= 1
        /\ (bw.pc = "done" /\ ~bw.failed /\ bw.result # Some(Unreachable)) =>
              /\ bw.result = Some(BundleTimeout(<<>>, bw.seen))
              /\ bw.seen > bw.max_block
              /\ bw.seen > bw.sub_at
              /\ \A b \in (bw.sub_at + 1)..(bw.seen - 1) : b <= bw.max_block

C32_Witness ==
    /\ pb.request.body = <<>>
    /\ bw.result = Some(BundleTimeout(<<>>, 3))
    /\ bw.max_block = 2
    /\ bw.sub_at = 0
    /\ bw.polls = 4

----------------------------------------------------------------------------
(* The handles and the submissions *)

\* C33: send_private_transaction and send_bundle return a handle only if
\* post() succeeded, and the handle carries the hash the relay returned and
\* the submitted parameters (the whole request for a bundle, the
\* max_block_number for a transaction); when post() fails they return its
\* error and no handle; in either case they make no provider query and no
\* block subscription.
C33_HandleOnlyAfterSubmit ==
    op.name \in {"send_bundle", "send_private_transaction"} =>
        /\ op.polls = 0
        /\ op.last = None
        /\ op.waited = None
        /\ op.pc \in {"start", "posted", "done"}
        /\ op.pc # "done" => op.result = None
        /\ op.pc = "done" =>
              LET response == Unwrap(op.response)
              IN IF response.kind # "Ok"
                 THEN op.result = Some(response)
                 ELSE IF op.name = "send_bundle"
                      THEN op.result = Some(Returned(
                              [hash |-> response.value.bundle_hash,
                               request |-> op.params]))
                      ELSE op.result = Some(Returned(
                              [hash |-> response.value,
                               max_block |-> op.params.max_block_number]))

C33_Witness ==
    /\ op.name = "send_private_transaction"
    /\ IsSome(op.posted)
    /\ op.response = Some(RpcFailure)
    /\ op.result = Some(RpcFailure)

\* C34: every HTTP request post() sends carries the JSON content type and the
\* signature header, the address of the signer and its signature of the
\* keccak hash of the serialized envelope, computed over the envelope (id,
\* method, params) that is sent as the body; a call whose parameter
\* serialization, signing or header construction failed returned that error
\* and sent no request
C34_SignedEnvelope ==
    \A c \in 1..MaxCalls :
        LET call == calls[c]
            envelope == JsonRpcRequest(Unwrap(call.id), CallArguments(c).method,
                                       CallArguments(c).params)
        IN /\ call.sent # None =>
                 /\ call.id # None
                 /\ Unwrap(call.sent).headers.content_type = "application/json"
                 /\ Unwrap(call.sent).headers.x_flashbots_signature =
                        [address |-> Address(AuthWallet),
                         signature |-> SignMessage(AuthWallet,
                             [prefix |-> "0x",
                              hex |-> Keccak256Bytes(SerdeToString(envelope))])]
                 /\ Unwrap(call.sent).json = SerdeToString(envelope)
           /\ call.failure = Some("params") =>
                 call.sent = None /\ call.result = Some(RpcJsonSerde)
           /\ call.failure = Some("signing") =>
                 call.sent = None /\ call.result = Some(RpcSigning)
           /\ call.failure = Some("header") =>
                 call.sent = None /\ call.result = Some(RpcInvalidHeader)
           /\ call.pc \in {"idle", "sign", "send"} => call.sent = None
           /\ (call.pc = "text" \/ call.text # None \/ call.failure = Some("transport"))
                 => call.sent # None

\* two calls sent requests with different envelopes, and a call in another
\* run failed before sending
C34_Witness ==
    /\ calls[1].sent # None
    /\ calls[2].sent # None
    /\ Unwrap(calls[1].sent).json # Unwrap(calls[2].sent).json
    /\ Unwrap(calls[1].sent).headers.x_flashbots_signature
         # Unwrap(calls[2].sent).headers.x_flashbots_signature

\* C35: simulate_bundle with a hash as the first element of the body waits
\* for that transaction up to the target block plus TX_WAIT_MAX_BLOCKS, then
\* posts the bundle with only element 0 replaced by the signed form of the
\* landed transaction and with parent_block set to the block of inclusion of
\* that transaction minus one only when the caller gave none; with any other
\* first element it posts the bundle and the options unchanged without any
\* provider query; when the wait fails nothing is posted.
C35_OnlyFirstElementAndParent ==
    op.name = "simulate_bundle" =>
        LET hashFirst == op.params.body # <<>> /\ op.params.body[1].kind = "Tx"
        IN /\ (hashFirst /\ op.pc # "start") =>
                 op.max_block = op.params.inclusion.block + TX_WAIT_MAX_BLOCKS
           /\ (hashFirst /\ IsSome(op.posted)) =>
                 LET hash == op.params.body[1].hash
                 IN /\ IsSome(op.waited)
                    /\ Unwrap(op.waited).kind = "Ok"
                    /\ IsSome(receipts[hash])
                    /\ Unwrap(op.posted) =
                          SimBundleRequest(
                              [op.params EXCEPT !.body[1] = Signed(RawOf(hash))],
                              IF IsSome(op.sim_options.parent_block)
                              THEN op.sim_options
                              ELSE SimulateBundleParams(
                                       Some(Unwrap(receipts[hash]).block_number - 1)))
           /\ (~hashFirst /\ op.pc # "start") =>
                 /\ op.posted = Some(SimBundleRequest(op.params, op.sim_options))
                 /\ op.polls = 0
                 /\ op.waited = None
           /\ (IsSome(op.waited) /\ Unwrap(op.waited).kind # "Ok") =>
                 op.posted = None

\* C37: the flattening iterator works on an explicit stack and always
\* terminates: between and during the calls of next() the stack holds at
\* most (nesting depth + 1) sibling iterators, a call of next() makes at
\* most one loop iteration per element and per level of the body before it
\* returns, and once next() has returned None the stack is empty and every
\* later call returns None.
C37_StackBoundedAndFused ==
    traversals > 0 =>
        LET loop == NextLoop(stack)
            r == BodyHashIteratorNext(stack)
        IN /\ Len(stack) <= NestingDepth(body) + 1
           /\ \A i \in 1..Len(loop) : Len(loop[i]) <= NestingDepth(body) + 1
           /\ Len(loop) <= 2 * Elements(body) + 2
           /\ r.stack = loop[Len(loop)]
           /\ finished => (stack = <<>> /\ r.item = None /\ r.stack = <<>>)

\* the traversal of a body with an empty nested bundle and two levels of
\* nesting has held three iterators, and has ended
C37_Witness ==
    /\ body = <<Bundle(<<>>), Bundle(<<Bundle(<<Signed(0)>>)>>)>>
    /\ finished
    /\ stack = <<>>
    /\ yielded = <<Keccak256(0)>>
    /\ traversals = 2

\* the HTTP request of the GET has been sent
RestRequested == get_call.pc \notin {"start", "send"}

\* C38 as stated: a response with a status that is not a success status
\* (2xx) ends in RestError::Network and its body is never parsed.
C38_NonSuccessIsNetwork ==
    (get_call.pc = "done" /\ IsSome(get_call.status)
        /\ ~(Unwrap(get_call.status) \in 200..299)) =>
        (get_call.result = Some(RestNetwork) /\ ~get_call.parsed)

\* C38 amended: a failure of the query-string encoding gives
\* RestError::QueryDeserialization and no request is sent; a transport
\* failure or a client-error or server-error status (4xx, 5xx) gives
\* RestError::Network and the body is not parsed; the body of a response
\* with any other status, 2xx or not, is parsed: RestError::Json when it
\* does not parse, Ok only with the parsed value.
C38_FailureKinds ==
    get_call.pc = "done" =>
        LET r == Unwrap(get_call.result)
        IN /\ r.kind \in {"Ok", "QueryDeserialization", "Network", "Json"}
           /\ r.kind = "QueryDeserialization" =>
                 (get_call.url = None /\ get_call.status = None
                    /\ get_call.params # None)
           /\ r.kind # "QueryDeserialization" =>
                 get_call.url = Some(RestUrl(get_call.path,
                     IF get_call.params = None THEN <<>>
                     ELSE SerdeQsToString(Unwrap(get_call.params))))
           /\ r.kind = "Network" => ~get_call.parsed
           /\ (IsSome(get_call.status) /\ Unwrap(get_call.status) \in 400..599) =>
                 (r = RestNetwork /\ ~get_call.parsed)
           /\ get_call.parsed <=> r.kind \in {"Ok", "Json"}
           /\ get_call.parsed =>
                 /\ ~(Unwrap(get_call.status) \in 400..599)
                 /\ r = RestFromStr(get_call.path, Unwrap(get_call.response))
           /\ r.kind = "Ok" =>
                 IF get_call.path = "history/info"
                 THEN Unwrap(get_call.response) = InfoText
                 ELSE Unwrap(get_call.response) \in {HistoryText, JArr(<<>>)}

\* a response with status 304 and a body that parses was returned as Ok
\* by a query that sent its parameters
C38_Witness ==
    /\ get_call.pc = "done"
    /\ get_call.path = "history"
    /\ get_call.url # None
    /\ Unwrap(get_call.url).query = << <<"blockStart", 1>>, <<"limit", 2>> >>
    /\ get_call.status = Some(304)
    /\ get_call.result = Some(RestOk([parsed |-> HistoryText]))

\* C39: backrun() reports BackrunTxDropped only after the whole inclusion
\* window of the bundle, the blocks start_block + 1 to
\* start_block + 1 + NUM_TARGET_BLOCKS, has passed without the backrun
\* transaction being included; a backrun transaction included in a block of
\* the window is never reported as dropped; and the target hash leaves the
\* shared target set exactly when the backrun is reported dropped.
C39_DroppedOnlyAfterWindow ==
    /\ IsSome(backrun_call.request) =>
          Unwrap(backrun_call.request).inclusion =
              Inclusion(Unwrap(backrun_call.start_block) + 1,
                        Some(Unwrap(backrun_call.start_block) + 1 + NUM_TARGET_BLOCKS))
    /\ (IsSome(backrun_call.result)
          /\ Unwrap(backrun_call.result).kind = "BackrunTxDropped") =>
          /\ height >= Unwrap(backrun_call.start_block) + 1 + NUM_TARGET_BLOCKS
          /\ receipts[BackrunTxHash] = None
    /\ (backrun_call.pc # "start" /\ IsSome(backrun_call.start_block)) =>
          ((backrun_call.pending_tx.hash \notin target_txs) <=>
             (IsSome(backrun_call.result)
                /\ Unwrap(backrun_call.result).kind = "BackrunTxDropped"))

\* C36: concurrent operations on one client are independent. In every
\* interleaving of a wait of a transaction, a wait of a bundle and post()
\* calls on one provider and one RPC client, a step of one wait changes
\* nothing of the other wait, of the calls or of the chain; a step of a
\* post() call changes its own call and the request-id counter only; each
\* wait reads its blocks from its own subscription and ends with an outcome
\* about its own hashes and its own deadline.
C36_Independent ==
    /\ [][/\ txVars' # txVars => UNCHANGED <<bundleVars, rpcVars, chainVars>>
          /\ bundleVars' # bundleVars => UNCHANGED <<txVars, rpcVars, chainVars>>
          /\ chainVars' # chainVars => UNCHANGED <<txVars, bundleVars, rpcVars>>
          /\ rpcVars' # rpcVars =>
                /\ UNCHANGED <<txVars, bundleVars, chainVars>>
                /\ \E c \in 1..MaxCalls :
                      \A d \in (1..MaxCalls) \ {c} : calls'[d] = calls[d]]_vars
    /\ [](/\ txw.subs <= 1
          /\ bw.subs <= 1
          /\ IsSome(txw.result) =>
                LET r == Unwrap(txw.result)
                IN /\ r.kind = "Ok" =>
                         (r.item = Unwrap(receipts[ptx.hash]) /\ r.item.status = 1)
                   /\ r.kind = "TransactionRevert" =>
                         r.receipt = Unwrap(receipts[ptx.hash])
                   /\ r.kind = "TransactionTimeout" =>
                         (r.hash = ptx.hash /\ txw.seen >= txw.max_block)
          /\ IsSome(bw.result) =>
                LET r == Unwrap(bw.result)
                IN /\ r.kind = "Ok" =>
                         r.item = <<Unwrap(receipts[bw.txs[1]])>>
                   /\ r.kind = "BundleTimeout" =>
                         (r.hashes = bw.txs /\ r.block > bw.max_block))

\* both waits have ended, one on its first poll and the other on a block of
\* its own subscription, while both post() calls took their ids
C36_Witness ==
    /\ IsSome(txw.result)
    /\ IsSome(bw.result)
    /\ Unwrap(txw.result).kind = "Ok"
    /\ Unwrap(bw.result).kind = "Ok"
    /\ txw.subs = 0
    /\ bw.subs = 1
    /\ txw.seen # bw.seen
    /\ calls[1].id = Some(1)
    /\ calls[2].id = Some(0)
====
